---- MODULE Spec2Model ----
(***************************************************************************)
(* Concert-management backend: the express route handlers of src/routes    *)
(* and src/unnamed, modelled as request processes over relational tables.  *)
(*                                                                         *)
(* A request occupies a slot r.  Its handler is cut at every `await`: the  *)
(* validation that precedes the first await belongs to the start step,     *)
(* every connection.execute is one step, the response that follows an      *)
(* execute synchronously belongs to that execute's step, and the finally   *)
(* block (await connection.close()) is the last step.  Requests of         *)
(* different slots interleave at these steps and nowhere else, which is    *)
(* node's scheduling of async functions.                                   *)
(*                                                                         *)
(* The database is the tables the statements of the source name, with the  *)
(* columns the handlers read or write.  The source declares no constraint  *)
(* (key, unique, foreign key), so the tables carry none.  A statement with *)
(* autoCommit is durable as soon as its step is taken.                     *)
(***************************************************************************)
EXTENDS Integers, FiniteSets, Sequences, TLC

VARIABLES
  db,    \* the tables
  seq,   \* the database sequences (next value) and the row counter
  rev,   \* which revision of a route file is deployed
  op,    \* per slot: the handler that runs
  pc,    \* per slot: the await the handler stands at
  conn,  \* per slot: the handler's connection
  resp,  \* per slot: the response sent
  arg,   \* per slot: req.body / req.params
  loc,   \* per slot: the handler's local constants
  pre    \* per slot: the tables when the request arrived

vars == <<db, seq, rev, op, pc, conn, resp, arg, loc, pre>>

(* ------------------------------ bounds --------------------------------- *)

\* request slots that may be in flight together
NReq == 2
\* highest value a sequence hands out to a request that is allowed to start
MaxSeq == 3
\* largest TICKET_SALES_LIMIT of a seeded concert
MaxLimit == 2
\* PRICE of a seeded concert
SeedPrice == 5

Reqs == 1..NReq
\* the slot of the specifications in which requests come one after the other
SeqReqs == {1}

(* --------------------------- JavaScript values ------------------------- *)

\* req.body fields whose handling depends on the JavaScript type
Undef == [t |-> "undefined", n |-> 0, s |-> ""]
Num(n) == [t |-> "number", n |-> n, s |-> ""]
Str(s) == [t |-> "string", n |-> 0, s |-> s]

\* !v
Falsy(v) ==
  \/ v.t = "undefined"
  \/ v.t = "number" /\ v.n = 0
  \/ v.t = "string" /\ v.s = ""

\* isNaN(v): undefined and the non-numeric strings convert to NaN ("" converts
\* to 0); the only non-empty strings of the model are non-numeric
IsNaN(v) ==
  \/ v.t = "undefined"
  \/ v.t = "string" /\ v.s # ""

\* ToNumber(v) for a v that is not NaN
ToNum(v) == IF v.t = "number" THEN v.n ELSE 0

\* v < k, v > k, v <= k: false whenever v converts to NaN
JsLt(v, k) == ~IsNaN(v) /\ ToNum(v) < k
JsGt(v, k) == ~IsNaN(v) /\ ToNum(v) > k
JsLe(v, k) == ~IsNaN(v) /\ ToNum(v) <= k

(* ------------------------------- tables -------------------------------- *)

NoArg == [none |-> 0]
NoLoc == [none |-> 0]
\* a response: the status, the fixed text of the body, and the fault text
\* (error.message) the body carries, "" when it carries none
NoResp == [code |-> 0, msg |-> "", error |-> ""]

Ids(rows) == {x.id : x \in rows}
RowsOf(rows, i) == {x \in rows : x.id = i}

SetMax(S) == IF S = {} THEN 0 ELSE CHOOSE m \in S : \A x \in S : x <= m

\* <sequence>.NEXTVAL: the database hands the value read to no other read, the
\* sequence stands one higher afterwards
NextValFrozen(n) == n
NextVal(n) == n + 1

\* SELECT COUNT(*) FROM TICKETS WHERE CONCERT_ID = :concertId: the rows that
\* are in the table, not the tickets ever issued
SoldTicketsEver(d, c) == seq.ticket - 1
SoldTickets(d, c) == Cardinality({t \in d.tickets : t.concert = c})

Quiet(r) == pc[r] \in {"idle", "done"}

(* ------------------------- the request skeleton ------------------------ *)

\* a new request takes slot r: the handler's locals are fresh and no
\* connection is held.  A validation that fails answers 400 before the first
\* await, and the finally block finds no connection: the handler is over.
\* Whether the tables are recorded at arrival is the specification's choice
\* (Arrival, NoRecord).
Begin(r, o, a, invalid, msg) ==
  /\ Quiet(r)
  /\ op' = [op EXCEPT ![r] = o]
  /\ arg' = [arg EXCEPT ![r] = a]
  /\ loc' = [loc EXCEPT ![r] = NoLoc]
  /\ conn' = [conn EXCEPT ![r] = "none"]
  /\ resp' = [resp EXCEPT ![r] =
                IF invalid THEN [code |-> 400, msg |-> msg, error |-> ""]
                ELSE NoResp]
  /\ pc' = [pc EXCEPT ![r] = IF invalid THEN "done" ELSE "connect"]
  /\ UNCHANGED <<db, seq, rev>>

\* pre[r] is the tables at the arrival of the request in slot r
Arrival(r) == pre' = IF Quiet(r) THEN [pre EXCEPT ![r] = db] ELSE pre
NoRecord == pre' = pre

\* the statement that follows connectToDB() in each handler
FirstStep(o) ==
  CASE o \in {"CreateTicketOld", "CreateVenue", "CreateConcert",
              "CreateSponsorshipOld", "CreateStaff"} -> "seq"
    [] o \in {"CreateTicket", "Register", "CreateFeedback",
              "UpdateConcert", "DeleteRow", "CreateSponsorship"} -> "check"
    [] OTHER -> "exec"

\* POST /artists runs its manager check only if (managerId)
AfterConnect(r) ==
  IF op[r] = "CreateArtist"
  THEN IF arg[r].managerId # 0 THEN "check" ELSE "seq"
  ELSE FirstStep(op[r])

\* connection = await connectToDB()
Connect(r) ==
  /\ pc[r] = "connect"
  /\ conn' = [conn EXCEPT ![r] = "open"]
  /\ pc' = [pc EXCEPT ![r] = AfterConnect(r)]
  /\ UNCHANGED <<db, seq, rev, op, resp, arg, loc, pre>>

\* finally { if (connection) { await connection.close() } }
Finally(r) ==
  /\ pc[r] = "finally"
  /\ conn' = [conn EXCEPT ![r] = IF @ = "open" THEN "closed" ELSE @]
  /\ pc' = [pc EXCEPT ![r] = "done"]
  /\ UNCHANGED <<db, seq, rev, op, resp, arg, loc, pre>>

\* res.status(code).json({message}) inside try or catch, then the finally block
Respond(r, code, msg) ==
  /\ resp' = [resp EXCEPT ![r] = [code |-> code, msg |-> msg, error |-> ""]]
  /\ pc' = [pc EXCEPT ![r] = "finally"]

\* the awaits inside try that are calls to the database driver (close is the
\* connection.close() POST /login awaits inside try); the close of a finally
\* block has a try/catch of its own, and what it throws reaches no catch block
\* that answers
DbCallsAndFinalClose ==
  {"connect", "check", "seq", "nextid", "insert", "update", "delete",
   "refetch", "exec", "fetch", "close", "finally"}
DbCalls ==
  {"connect", "check", "seq", "nextid", "insert", "update", "delete",
   "refetch", "exec", "fetch", "close"}

\* error.message of what an awaited call throws
FaultTexts == {"ORA-03113", "ORA-12541"}

\* the text of the catch block's body, handler by handler
FailMessage(o, a) ==
  CASE o = "Login" -> "Login failed"
    [] o = "Register" -> "Failed to register attendee"
    [] o \in {"CreateTicket", "CreateTicketOld"} -> "Failed to create ticket"
    [] o = "CreateFeedback" -> "Failed to create feedback"
    [] o = "CreateVenue" -> "Failed to create venue"
    [] o = "CreateConcert" -> "Failed to create concert"
    [] o = "UpdateConcert" -> "Failed to update concert"
    [] o = "GetConcert" -> "Failed to retrieve concert"
    [] o = "DeleteConcert" -> "Failed to delete concert"
    [] o = "Summary" -> "Failed to generate summary"
    [] o = "Dashboard" -> "Failed to generate dashboard"
    [] o = "CreateArtist" -> "Failed to create artist"
    [] o = "CreateStaff" -> "Failed to create staff member"
    [] o \in {"CreateSponsorship", "CreateSponsorshipOld"} ->
         "Failed to create sponsorship"
    [] o = "AdminLogin" -> "Internal server error"
    [] o = "DeletePlatform" -> "Failed to delete streaming platform"
    [] o = "DeleteRow" ->
         CASE a.table = "staff" -> "Failed to delete staff member"
           [] a.table = "venues" -> "Failed to delete venue"
           [] a.table = "artists" -> "Failed to delete artist"
           [] OTHER -> "Failed to delete ticket"
    [] OTHER -> "failed"

\* the catch blocks whose body has error: error.message
EchoesFaultEverywhere(o) == TRUE
EchoesFault(o) == o \in {"DeleteConcert", "DeletePlatform"}

\* the awaited call throws.  Every handler but POST /login has
\* catch { res.status(500).json({message}) } finally { close }; POST /login
\* declares its connection inside try and has a catch block only.
Fault(r) ==
  /\ pc[r] \in DbCalls
  /\ \E e \in FaultTexts :
       resp' = [resp EXCEPT ![r] =
                  [code |-> 500, msg |-> FailMessage(op[r], arg[r]),
                   error |-> IF EchoesFault(op[r]) THEN e ELSE ""]]
  /\ pc' = [pc EXCEPT ![r] = IF op[r] = "Login" THEN "done" ELSE "finally"]
  /\ UNCHANGED <<db, seq, rev, op, conn, arg, loc, pre>>

(* ------------------------------ tickets -------------------------------- *)

\* if (soldTickets >= ticketLimit): the concert is sold out
SoldOutOffByOne(sold, limit) == sold > limit
SoldOut(sold, limit) == sold >= limit

\* POST /tickets, sold-out-checking revision: if (!concertId || !attendeeId)
TicketStart(r) ==
  /\ rev = "new"
  /\ \E c \in 0..2, a \in 0..2 :
       Begin(r, "CreateTicket", [concertId |-> c, attendeeId |-> a],
             c = 0 \/ a = 0, "required")

\* SELECT PRICE, TICKET_SALES_LIMIT, (SELECT COUNT(*) ...) FROM CONCERTS
TicketCheck(r) ==
  /\ op[r] = "CreateTicket" /\ pc[r] = "check"
  /\ LET rows == RowsOf(db.concerts, arg[r].concertId) IN
       IF rows = {}
       THEN Respond(r, 404, "Concert not found") /\ UNCHANGED loc
       ELSE \E row \in rows :
              LET sold == SoldTickets(db, arg[r].concertId) IN
              /\ loc' = [loc EXCEPT ![r] =
                           [price |-> row.price, limit |-> row.limit,
                            sold |-> sold, id |-> 0]]
              /\ IF SoldOut(sold, row.limit)
                 THEN Respond(r, 400, "sold out")
                 ELSE /\ pc' = [pc EXCEPT ![r] = "seq"]
                      /\ UNCHANGED resp
  /\ UNCHANGED <<db, seq, rev, op, conn, arg, pre>>

\* POST /tickets, older revision: if (!concertId || !attendeeId || !price);
\* there is no statement before the sequence read
TicketOldStart(r) ==
  /\ rev = "old"
  /\ \E c \in 0..2, a \in 0..1, p \in {0, SeedPrice} :
       Begin(r, "CreateTicketOld",
             [concertId |-> c, attendeeId |-> a, price |-> p],
             c = 0 \/ a = 0 \/ p = 0, "required")

\* SELECT TICKET_SEQ.NEXTVAL FROM DUAL; the price of the ticket is the
\* concert's price read by the check, or req.body.price in the older revision
TicketSeq(r) ==
  /\ op[r] \in {"CreateTicket", "CreateTicketOld"} /\ pc[r] = "seq"
  /\ loc' = [loc EXCEPT ![r] =
               IF op[r] = "CreateTicket"
               THEN [@ EXCEPT !.id = seq.ticket]
               ELSE [price |-> arg[r].price, limit |-> 0, sold |-> 0,
                     id |-> seq.ticket]]
  /\ seq' = [seq EXCEPT !.ticket = NextVal(@)]
  /\ pc' = [pc EXCEPT ![r] = "insert"]
  /\ UNCHANGED <<db, rev, op, conn, resp, arg, pre>>

\* INSERT INTO TICKETS (TICKET_ID, PRICE, CONCERT_ID, ATTENDEELD, STATUS)
TicketInsert(r) ==
  /\ op[r] \in {"CreateTicket", "CreateTicketOld"} /\ pc[r] = "insert"
  /\ db' = [db EXCEPT !.tickets = @ \cup
              {[id |-> loc[r].id, price |-> loc[r].price,
                concert |-> arg[r].concertId,
                attendee |-> arg[r].attendeeId]}]
  /\ pc' = [pc EXCEPT ![r] = "refetch"]
  /\ UNCHANGED <<seq, rev, op, conn, resp, arg, loc, pre>>

\* TICKETS T JOIN CONCERTS C JOIN VENUES V WHERE T.TICKET_ID = :ticketId
TicketJoinVenue(d, i) ==
  {<<t, c, v>> \in d.tickets \X d.concerts \X d.venues :
     t.id = i /\ t.concert = c.id /\ c.venue = v.id}

\* TICKETS T JOIN CONCERTS C WHERE T.TICKET_ID = :id
TicketJoin(d, i) ==
  {<<t, c>> \in d.tickets \X d.concerts : t.id = i /\ t.concert = c.id}

\* the re-fetch of the created ticket: row = result.rows[0] is undefined when
\* the join is empty, and row[0] then throws into the catch block
TicketRefetch(r) ==
  /\ op[r] \in {"CreateTicket", "CreateTicketOld"} /\ pc[r] = "refetch"
  /\ LET rows == IF op[r] = "CreateTicket"
                 THEN TicketJoinVenue(db, loc[r].id)
                 ELSE TicketJoin(db, loc[r].id) IN
       IF rows = {}
       THEN Respond(r, 500, "Failed to create ticket")
       ELSE Respond(r, 201, "ticket")
  /\ UNCHANGED <<db, seq, rev, op, conn, arg, loc, pre>>

(* ----------------------------- attendees ------------------------------- *)

\* if (contactCheck.rows.length > 0): the contact is taken
ContactCheckSkipsOne(rows) == Cardinality(rows) > 1
ContactInUse(rows) == Cardinality(rows) > 0

\* SELECT NVL(MAX(ATTENDEELD), 0) + 1 FROM ATTENDEE
NextIdNoIncrement(d) == SetMax(Ids(d.attendees))
NextIdMax(d) == SetMax(Ids(d.attendees)) + 1

\* the request bodies: complete ones, and bodies that lack one field
RegisterBodies ==
  {[name |-> "n", contactInfo |-> "a", password |-> "p"],
   [name |-> "n", contactInfo |-> "b", password |-> "p"],
   [name |-> "", contactInfo |-> "a", password |-> "p"],
   [name |-> "n", contactInfo |-> "", password |-> "p"],
   [name |-> "n", contactInfo |-> "a", password |-> ""]}

\* POST /register: if (!name || !contactInfo || !password)
RegisterStart(r) ==
  \E b \in RegisterBodies :
    Begin(r, "Register", b,
          b.name = "" \/ b.contactInfo = "" \/ b.password = "", "required")

\* SELECT 1 FROM ATTENDEE WHERE CONTACTINFO = :contactInfo
RegisterCheck(r) ==
  /\ op[r] = "Register" /\ pc[r] = "check"
  /\ IF ContactInUse({x \in db.attendees : x.contact = arg[r].contactInfo})
     THEN Respond(r, 409, "Contact Info already in use")
     ELSE /\ pc' = [pc EXCEPT ![r] = "nextid"]
          /\ UNCHANGED resp
  /\ UNCHANGED <<db, seq, rev, op, conn, arg, loc, pre>>

\* the id of the new attendee: MAX(ATTENDEELD) + 1 in routes/auth.js,
\* ATTENDEE_SEQ.NEXTVAL in the sequence revision.  seen records the ids that
\* are in the table when the id is read.
RegisterNextId(r) ==
  /\ op[r] = "Register" /\ pc[r] = "nextid"
  /\ IF rev = "max"
     THEN /\ loc' = [loc EXCEPT ![r] =
                       [id |-> NextIdMax(db), seen |-> Ids(db.attendees)]]
          /\ UNCHANGED seq
     ELSE /\ loc' = [loc EXCEPT ![r] =
                       [id |-> seq.attendee, seen |-> Ids(db.attendees)]]
          /\ seq' = [seq EXCEPT !.attendee = NextVal(@)]
  /\ pc' = [pc EXCEPT ![r] = "insert"]
  /\ UNCHANGED <<db, rev, op, conn, resp, arg, pre>>

\* INSERT INTO ATTENDEE (ATTENDEELD, NAME, CONTACTINFO, PASSWORD), then
\* res.status(201).json({id, name, contactInfo}).  rid is the physical row: two
\* inserts of equal values are two rows.
RegisterInsert(r) ==
  /\ op[r] = "Register" /\ pc[r] = "insert"
  /\ db' = [db EXCEPT !.attendees = @ \cup
              {[rid |-> seq.rowid, id |-> loc[r].id,
                contact |-> arg[r].contactInfo,
                password |-> arg[r].password]}]
  /\ seq' = [seq EXCEPT !.rowid = @ + 1]
  /\ Respond(r, 201, "registered")
  /\ UNCHANGED <<rev, op, conn, arg, loc, pre>>

\* POST /login: no validation; connectToDB() is the first statement of try
LoginStart(r) ==
  \E c \in {"a", "b"}, p \in {"p", "q"} :
    Begin(r, "Login", [contactInfo |-> c, password |-> p], FALSE, "")

\* SELECT ... FROM Attendee WHERE ContactInfo = :contact AND Password = :password
LoginExec(r) ==
  /\ op[r] = "Login" /\ pc[r] = "exec"
  /\ loc' = [loc EXCEPT ![r] =
               [rows |-> {x \in db.attendees :
                            /\ x.contact = arg[r].contactInfo
                            /\ x.password = arg[r].password}]]
  /\ pc' = [pc EXCEPT ![r] = "close"]
  /\ UNCHANGED <<db, seq, rev, op, conn, resp, arg, pre>>

\* await connection.close(), then 401 for no row and the attendee otherwise
LoginClose(r) ==
  /\ op[r] = "Login" /\ pc[r] = "close"
  /\ conn' = [conn EXCEPT ![r] = "closed"]
  /\ resp' = [resp EXCEPT ![r] =
                IF loc[r].rows = {}
                THEN [code |-> 401, msg |-> "Invalid credentials", error |-> ""]
                ELSE [code |-> 200, msg |-> "Login successful",
                      error |-> ""]]
  /\ pc' = [pc EXCEPT ![r] = "done"]
  /\ UNCHANGED <<db, seq, rev, op, arg, loc, pre>>

(* ------------------------------ dashboard ------------------------------ *)

\* the cursors GET_ATTENDEE_DASHBOARD binds out: upcoming, past, stats
DashboardCursors == 3

\* GET /concerts/attendee/:attendeeId/dashboard
DashboardStart(r) ==
  \E a \in 1..2 : Begin(r, "Dashboard", [attendeeId |-> a], FALSE, "")

\* BEGIN GET_ATTENDEE_DASHBOARD(:attendeeId, ...); END;
DashboardExec(r) ==
  /\ op[r] = "Dashboard" /\ pc[r] = "exec"
  /\ loc' = [loc EXCEPT ![r] = [cursors |-> DashboardCursors]]
  /\ pc' = [pc EXCEPT ![r] = "fetch"]
  /\ UNCHANGED <<db, seq, rev, op, conn, resp, arg, pre>>

\* await fetchCursorData(cursor), one cursor after the other; res.json after
\* the last
DashboardFetch(r) ==
  /\ op[r] = "Dashboard" /\ pc[r] = "fetch"
  /\ loc' = [loc EXCEPT ![r] = [cursors |-> @.cursors - 1]]
  /\ IF loc[r].cursors = 1
     THEN Respond(r, 200, "dashboard")
     ELSE UNCHANGED <<pc, resp>>
  /\ UNCHANGED <<db, seq, rev, op, conn, arg, pre>>

(* ------------------------------ feedback ------------------------------- *)

\* if (rating < 1 || rating > 5)
RatingOutOfRange(rating) == JsLt(rating, 1) \/ JsGt(rating, 5)

Ratings == {Undef, Num(0), Num(1), Num(3), Num(5), Num(6)}

\* POST feedback: if (!concertId || !attendeeId || !rating), then the range
FeedbackStart(r) ==
  \E c \in 0..2, a \in 0..2, g \in Ratings :
    Begin(r, "CreateFeedback",
          [concertId |-> c, attendeeId |-> a, rating |-> g],
          c = 0 \/ a = 0 \/ Falsy(g) \/ RatingOutOfRange(g),
          IF c = 0 \/ a = 0 \/ Falsy(g) THEN "required" ELSE "rating range")

\* SELECT STATUS FROM CONCERTS WHERE CONCERT_ID = :concert_id
FeedbackCheck(r) ==
  /\ op[r] = "CreateFeedback" /\ pc[r] = "check"
  /\ IF RowsOf(db.concerts, arg[r].concertId) = {}
     THEN Respond(r, 404, "Concert not found")
     ELSE /\ pc' = [pc EXCEPT ![r] = "seq"]
          /\ UNCHANGED resp
  /\ UNCHANGED <<db, seq, rev, op, conn, arg, loc, pre>>

\* SELECT FEEDBACK_SEQ.NEXTVAL FROM DUAL
FeedbackSeq(r) ==
  /\ op[r] = "CreateFeedback" /\ pc[r] = "seq"
  /\ loc' = [loc EXCEPT ![r] = [id |-> seq.feedback]]
  /\ seq' = [seq EXCEPT !.feedback = NextVal(@)]
  /\ pc' = [pc EXCEPT ![r] = "insert"]
  /\ UNCHANGED <<db, rev, op, conn, resp, arg, pre>>

\* INSERT INTO FEEDBACK (FEEDBACK_ID, CONCERT_ID, ATTENDEELD, RATING, ...)
FeedbackInsert(r) ==
  /\ op[r] = "CreateFeedback" /\ pc[r] = "insert"
  /\ db' = [db EXCEPT !.feedback = @ \cup
              {[id |-> loc[r].id, concert |-> arg[r].concertId,
                attendee |-> arg[r].attendeeId,
                rating |-> ToNum(arg[r].rating)]}]
  /\ pc' = [pc EXCEPT ![r] = "refetch"]
  /\ UNCHANGED <<seq, rev, op, conn, resp, arg, loc, pre>>

\* FEEDBACK F JOIN ATTENDEE A JOIN CONCERTS C WHERE F.FEEDBACK_ID = :id
FeedbackJoin(d, i) ==
  {<<f, a, c>> \in d.feedback \X d.attendees \X d.concerts :
     f.id = i /\ f.attendee = a.id /\ f.concert = c.id}

\* the re-fetch of the created feedback: result.rows[0][0] throws into the
\* catch block when the join is empty
FeedbackRefetch(r) ==
  /\ op[r] = "CreateFeedback" /\ pc[r] = "refetch"
  /\ IF FeedbackJoin(db, loc[r].id) = {}
     THEN Respond(r, 500, "Failed to create feedback")
     ELSE Respond(r, 201, "feedback")
  /\ UNCHANGED <<db, seq, rev, op, conn, arg, loc, pre>>

(* ------------------------------- venues -------------------------------- *)

\* if (isNaN(capacity) || capacity <= 0)
CapacityCheckOnlyNaN(capacity) == IsNaN(capacity)
CapacityInvalid(capacity) == IsNaN(capacity) \/ JsLe(capacity, 0)

Capacities == {Undef, Num(0 - 1), Num(0), Num(1), Num(2), Str("abc")}

\* POST /venues: if (!name || !location || !capacity), then the capacity
VenueStart(r) ==
  \E n \in {"", "n"}, l \in {"", "l"}, c \in Capacities :
    Begin(r, "CreateVenue", [name |-> n, location |-> l, capacity |-> c],
          n = "" \/ l = "" \/ Falsy(c) \/ CapacityInvalid(c),
          IF n = "" \/ l = "" \/ Falsy(c) THEN "required" ELSE "positive")

\* SELECT VENUE_SEQ.NEXTVAL FROM DUAL
VenueSeq(r) ==
  /\ op[r] = "CreateVenue" /\ pc[r] = "seq"
  /\ loc' = [loc EXCEPT ![r] = [id |-> seq.venue]]
  /\ seq' = [seq EXCEPT !.venue = NextVal(@)]
  /\ pc' = [pc EXCEPT ![r] = "insert"]
  /\ UNCHANGED <<db, rev, op, conn, resp, arg, pre>>

\* INSERT INTO VENUES (VENUE_ID, NAME, LOCATION, CAPACITY, ...), then
\* res.status(201).json({success: true, venueId, ...})
VenueInsert(r) ==
  /\ op[r] = "CreateVenue" /\ pc[r] = "insert"
  /\ db' = [db EXCEPT !.venues = @ \cup
              {[id |-> loc[r].id, capacity |-> ToNum(arg[r].capacity)]}]
  /\ Respond(r, 201, "venue")
  /\ UNCHANGED <<seq, rev, op, conn, arg, loc, pre>>

(* ------------------------------ concerts ------------------------------- *)

\* DELETE_CONCERT_AND_TICKETS(:id, :status): the status it binds out and the
\* tables it leaves.  A Completed concert is not deleted; any other concert is
\* removed together with its tickets.
DeleteConcertAndTickets(d, i) ==
  LET rows == RowsOf(d.concerts, i) IN
  IF rows = {}
  THEN [status |-> "Concert not found", db |-> d]
  ELSE IF \E c \in rows : c.status = "Completed"
  THEN [status |-> "Cannot delete completed concert", db |-> d]
  ELSE [status |-> "Concert deleted successfully",
        db |-> [d EXCEPT !.concerts = @ \ rows,
                         !.tickets = {t \in @ : t.concert # i}]]

\* deleteStatus.includes(...): the substrings the handler looks for
Includes(status, sub) ==
  \/ sub = "not found" /\ status = "Concert not found"
  \/ sub = "Cannot delete" /\ status = "Cannot delete completed concert"
  \/ sub = "Error:" /\ status = "Error: the procedure failed"
  \/ sub = "not found" /\ status = "Platform not found"
  \/ sub = "successfully" /\ status = "Platform deleted successfully"

\* the answer DELETE /concerts/:id gives for a status
\* (an "Error:" status is thrown into the catch block)
DeleteAnswerIgnoresCannot(status) ==
  IF Includes(status, "not found") THEN 404
  ELSE IF Includes(status, "Error:") THEN 500
  ELSE 200
DeleteAnswer(status) ==
  IF Includes(status, "not found") THEN 404
  ELSE IF Includes(status, "Cannot delete") THEN 400
  ELSE IF Includes(status, "Error:") THEN 500
  ELSE 200

\* DELETE /concerts/:id
DeleteConcertStart(r) ==
  \E i \in 1..3 : Begin(r, "DeleteConcert", [id |-> i], FALSE, "")

\* BEGIN DELETE_CONCERT_AND_TICKETS(:id, :status); END; and the answer
DeleteConcertExec(r) ==
  /\ op[r] = "DeleteConcert" /\ pc[r] = "exec"
  /\ LET out == DeleteConcertAndTickets(db, arg[r].id) IN
       /\ db' = out.db
       /\ Respond(r, DeleteAnswer(out.status), out.status)
  /\ UNCHANGED <<seq, rev, op, conn, arg, loc, pre>>

\* a column of a result row: NULL, a number or a string (a table column that
\* holds 0 or "" holds NULL)
Null == [t |-> "null", n |-> 0, s |-> ""]
NumCol(n) == IF n = 0 THEN Null ELSE Num(n)
StrCol(x) == IF x = "" THEN Null ELSE Str(x)

\* AVG(RATING) and COUNT(*) over the feedback of concert i; the ratings are
\* 1 to 5, the average is kept to its integer part
RatingStats(d, i) ==
  LET n(k) == Cardinality({f \in d.feedback : f.concert = i /\ f.rating = k})
      total == n(1) + n(2) + n(3) + n(4) + n(5)
      sum == n(1) + 2 * n(2) + 3 * n(3) + 4 * n(4) + 5 * n(5)
  IN [average |-> IF total = 0 THEN Null ELSE Num(sum \div total),
      total |-> Num(total)]

\* the row CONCERT_FULL_DETAILS has for concert c, columns 1 to 20 (row[0] to
\* row[19] of the handlers): the concert's own columns with the description
\* seventh, then its venue, its limits, its artist, its manager and its
\* ratings; the columns of a venue, artist or manager that does not exist are
\* NULL
ViewRow(d, c) ==
  LET hall == RowsOf(d.venues, c.venue) # {}
      act == RowsOf(d.artists, c.artist) # {}
      boss == RowsOf(d.staff, c.manager) # {}
      stats == RatingStats(d, c.id)
  IN <<Num(c.id), StrCol(c.name), StrCol(c.date), StrCol(c.time),
       StrCol(c.status), NumCol(c.price), StrCol(c.description),
       IF hall THEN Num(c.venue) ELSE Null,
       IF hall THEN Str("hall") ELSE Null,
       IF hall THEN Str("street") ELSE Null,
       IF hall THEN Num(SetMax({v.capacity : v \in RowsOf(d.venues, c.venue)}))
       ELSE Null,
       NumCol(c.limit),
       Num(c.limit - SoldTickets(d, c.id)),
       IF act THEN Num(c.artist) ELSE Null,
       IF act THEN Str("band") ELSE Null,
       IF act THEN Str("genre") ELSE Null,
       IF boss THEN Num(c.manager) ELSE Null,
       IF boss THEN Str("boss") ELSE Null,
       stats.average, stats.total>>

\* SELECT * FROM CONCERT_FULL_DETAILS WHERE CONCERT_ID = :id
ConcertFullDetails(d, i) == {ViewRow(d, c) : c \in RowsOf(d.concerts, i)}

\* const concert = {...} of GET /concerts/:id and of POST /concerts: row[k] of
\* the handler is row[k + 1] here
ConcertOfRow(row) ==
  [id |-> row[1], name |-> row[2], date |-> row[3], time |-> row[4],
   status |-> row[5], price |-> row[6], description |-> row[7],
   venue |-> [id |-> row[8], name |-> row[9], location |-> row[10],
              capacity |-> row[11]],
   ticketSalesLimit |-> row[12], remainingCapacity |-> row[13],
   artist |-> [id |-> row[14], name |-> row[15], genre |-> row[16]],
   manager |-> [id |-> row[17], name |-> row[18]],
   ratings |-> [average |-> row[19], totalFeedbacks |-> row[20]]]

\* const concert = {...} of PUT /concerts/:id: no description, venue.id is
\* row[6], and every later field is read one column earlier than in GET
UpdatedConcertOfRow(row) ==
  [id |-> row[1], name |-> row[2], date |-> row[3], time |-> row[4],
   status |-> row[5], price |-> row[6],
   venue |-> [id |-> row[7], name |-> row[8], location |-> row[9],
              capacity |-> row[10]],
   ticketSalesLimit |-> row[11], remainingCapacity |-> row[12],
   artist |-> [id |-> row[13], name |-> row[14], genre |-> row[15]],
   manager |-> [id |-> row[16], name |-> row[17]],
   ratings |-> [average |-> row[18], totalFeedbacks |-> row[19]]]

\* if (result.rows.length === 0): 404
NoRows(rows) == Cardinality(rows) = 0

\* GET /concerts/:id
GetConcertStart(r) ==
  \E i \in 1..3 : Begin(r, "GetConcert", [id |-> i], FALSE, "")

\* the query; 404 for no row, otherwise res.json(concert) for result.rows[0],
\* and body is the concert sent
GetConcertExec(r) ==
  /\ op[r] = "GetConcert" /\ pc[r] = "exec"
  /\ LET rows == ConcertFullDetails(db, arg[r].id) IN
       IF NoRows(rows)
       THEN Respond(r, 404, "Concert not found") /\ UNCHANGED loc
       ELSE \E row \in rows :
              /\ loc' = [loc EXCEPT ![r] = [body |-> ConcertOfRow(row)]]
              /\ Respond(r, 200, "concert")
  /\ UNCHANGED <<db, seq, rev, op, conn, arg, pre>>

(* ---------------------------- concert writes --------------------------- *)

\* A column that holds 0 or "" holds NULL: the handlers bind x || null, and
\* the ids the sequences hand out start at 1.

\* req.body of POST /concerts: a complete body whose references exist, and
\* bodies that differ from it in one field
ConcertBody ==
  [name |-> "n", date |-> "d", time |-> "t", venueId |-> 1, artistId |-> 1,
   managerId |-> 1, ticketSalesLimit |-> 1, price |-> Num(SeedPrice),
   description |-> "x", status |-> ""]

ConcertBodies ==
  {ConcertBody}
  \cup {[ConcertBody EXCEPT !.name = ""], [ConcertBody EXCEPT !.date = ""],
        [ConcertBody EXCEPT !.time = ""],
        [ConcertBody EXCEPT !.ticketSalesLimit = 0]}
  \cup {[ConcertBody EXCEPT !.venueId = i] : i \in {0, 2}}
  \cup {[ConcertBody EXCEPT !.artistId = i] : i \in {0, 2}}
  \cup {[ConcertBody EXCEPT !.managerId = i] : i \in {0, 2}}
  \cup {[ConcertBody EXCEPT !.price = v] : v \in {Undef, Num(0), Num(0 - 1)}}
  \cup {[ConcertBody EXCEPT !.description = ""]}
  \cup {[ConcertBody EXCEPT !.status = x] : x \in {"Completed", "Canceled"}}

\* if (!name || !date || !time || !venueId || !artistId || !managerId ||
\*     !ticketSalesLimit || !price)
ConcertFieldMissing(b) ==
  \/ b.name = "" \/ b.date = "" \/ b.time = ""
  \/ b.venueId = 0 \/ b.artistId = 0 \/ b.managerId = 0
  \/ b.ticketSalesLimit = 0
  \/ Falsy(b.price)

\* POST /concerts
CreateConcertStart(r) ==
  \E b \in ConcertBodies :
    Begin(r, "CreateConcert", b, ConcertFieldMissing(b), "required")

\* SELECT CONCERT_SEQ.NEXTVAL FROM DUAL
ConcertSeq(r) ==
  /\ op[r] = "CreateConcert" /\ pc[r] = "seq"
  /\ loc' = [loc EXCEPT ![r] = [id |-> seq.concert]]
  /\ seq' = [seq EXCEPT !.concert = NextVal(@)]
  /\ pc' = [pc EXCEPT ![r] = "insert"]
  /\ UNCHANGED <<db, rev, op, conn, resp, arg, pre>>

\* the STATUS of the VALUES list: the literal 'Scheduled'; req.body.status is
\* not read
StatusOfBody(b) == IF b.status = "" THEN "Scheduled" ELSE b.status
StatusInserted(b) == "Scheduled"

\* INSERT INTO CONCERTS (...) VALUES (..., 'Scheduled', :description),
\* description bound description || null
ConcertInsert(r) ==
  /\ op[r] = "CreateConcert" /\ pc[r] = "insert"
  /\ db' = [db EXCEPT !.concerts = @ \cup
              {[id |-> loc[r].id, name |-> arg[r].name, date |-> arg[r].date,
                time |-> arg[r].time, venue |-> arg[r].venueId,
                artist |-> arg[r].artistId, manager |-> arg[r].managerId,
                limit |-> arg[r].ticketSalesLimit,
                price |-> ToNum(arg[r].price),
                status |-> StatusInserted(arg[r]),
                description |-> arg[r].description]}]
  /\ pc' = [pc EXCEPT ![r] = "refetch"]
  /\ UNCHANGED <<seq, rev, op, conn, resp, arg, loc, pre>>

\* if (price !== undefined && price <= 0)
PriceCheckSkipped(price) == FALSE
PriceInvalid(price) == price.t # "undefined" /\ JsLe(price, 0)

\* req.body of PUT /concerts/:id: complete bodies, a body without price, a
\* body without status, and the empty body
UpdateBody ==
  [name |-> "n", date |-> "d", time |-> "t", venueId |-> 1, artistId |-> 1,
   managerId |-> 1, ticketSalesLimit |-> 1, price |-> Num(SeedPrice),
   status |-> "Scheduled", description |-> "x"]

UpdateBodies ==
  {[UpdateBody EXCEPT !.price = v] :
     v \in {Num(SeedPrice), Num(1), Num(0), Num(0 - 1), Undef}}
  \cup {[UpdateBody EXCEPT !.status = x] :
          x \in {"Scheduled", "Completed", "Canceled", ""}}
  \cup {[UpdateBody EXCEPT !.name = ""], [UpdateBody EXCEPT !.name = "m"],
        [UpdateBody EXCEPT !.description = ""],
        [UpdateBody EXCEPT !.ticketSalesLimit = 0]}
  \cup {[name |-> "", date |-> "", time |-> "", venueId |-> 0,
          artistId |-> 0, managerId |-> 0, ticketSalesLimit |-> 0,
          price |-> Undef, status |-> "", description |-> ""]}

\* the bodies that set another price and leave the other columns as seeded
RepriceBodies == {[UpdateBody EXCEPT !.price = v] : v \in {Num(1), Undef}}

\* PUT /concerts/:id: nothing is validated before the connection is opened
UpdateConcertWith(r, bodies) ==
  \E i \in 1..2, b \in bodies :
    Begin(r, "UpdateConcert", b @@ [id |-> i], FALSE, "")

UpdateConcertStart(r) == UpdateConcertWith(r, UpdateBodies)

\* SELECT 1 FROM CONCERTS WHERE CONCERT_ID = :id, then the price validation;
\* the status of the body and of the row are not looked at
UpdateConcertCheck(r) ==
  /\ op[r] = "UpdateConcert" /\ pc[r] = "check"
  /\ IF NoRows(RowsOf(db.concerts, arg[r].id))
     THEN Respond(r, 404, "Concert not found")
     ELSE IF PriceInvalid(arg[r].price)
     THEN Respond(r, 400, "Price must be greater than 0")
     ELSE /\ pc' = [pc EXCEPT ![r] = "update"]
          /\ UNCHANGED resp
  /\ UNCHANGED <<db, seq, rev, op, conn, arg, loc, pre>>

\* status: status || null, the value bound to STATUS = :status
StatusBoundAsCreated(status) == "Scheduled"
StatusBound(status) == IF status = "" THEN "" ELSE status

\* name: name || null (and date, time, description alike), the value bound to
\* NAME = :name: what the body gives, whatever the column held
TextBoundIfGiven(v, old) == IF v = "" THEN old ELSE v
TextBound(v, old) == v

\* UPDATE CONCERTS SET ... WHERE CONCERT_ID = :id, every column bound x || null
UpdateConcertExec(r) ==
  /\ op[r] = "UpdateConcert" /\ pc[r] = "update"
  /\ db' = [db EXCEPT !.concerts =
              {IF c.id = arg[r].id
               THEN [id |-> c.id,
                     name |-> TextBound(arg[r].name, c.name),
                     date |-> TextBound(arg[r].date, c.date),
                     time |-> TextBound(arg[r].time, c.time),
                     description |->
                       TextBound(arg[r].description, c.description),
                     venue |-> arg[r].venueId,
                     artist |-> arg[r].artistId,
                     manager |-> arg[r].managerId,
                     limit |-> arg[r].ticketSalesLimit,
                     price |-> IF Falsy(arg[r].price) THEN 0
                               ELSE ToNum(arg[r].price),
                     status |-> StatusBound(arg[r].status)]
               ELSE c : c \in @}]
  /\ loc' = [loc EXCEPT ![r] = [id |-> arg[r].id]]
  /\ pc' = [pc EXCEPT ![r] = "refetch"]
  /\ UNCHANGED <<seq, rev, op, conn, resp, arg, pre>>

\* SELECT * FROM CONCERT_FULL_DETAILS WHERE CONCERT_ID = :id after the insert
\* or the update: row = result.rows[0], and row[0] throws when there is none
ConcertRefetch(r) ==
  /\ op[r] \in {"CreateConcert", "UpdateConcert"} /\ pc[r] = "refetch"
  /\ LET rows == ConcertFullDetails(db, loc[r].id) IN
       IF NoRows(rows)
       THEN /\ Respond(r, 500, IF op[r] = "CreateConcert"
                               THEN "Failed to create concert"
                               ELSE "Failed to update concert")
            /\ UNCHANGED loc
       ELSE \E row \in rows :
              IF op[r] = "CreateConcert"
              THEN /\ loc' = [loc EXCEPT ![r] =
                                [id |-> @.id, body |-> ConcertOfRow(row)]]
                   /\ Respond(r, 201, "concert")
              ELSE /\ loc' = [loc EXCEPT ![r] =
                                [id |-> @.id,
                                 body |-> UpdatedConcertOfRow(row)]]
                   /\ Respond(r, 200, "concert")
  /\ UNCHANGED <<db, seq, rev, op, conn, arg, pre>>

(* ------------------------------- deletes ------------------------------- *)

\* the tables with a plain-SQL DELETE /:id handler that hold seeded rows
DeleteTables == {"staff", "venues", "artists", "tickets"}

\* if (checkResult.rows.length === 0): there is nothing to delete
DeleteCheckAlwaysFinds(rows) == FALSE
NothingToDelete(rows) == Cardinality(rows) = 0

\* DELETE /:id of routes/staff.js, routes/venues.js, routes/artists.js and
\* the tickets router
DeleteRowStart(r) ==
  \E t \in DeleteTables, i \in 1..2 :
    Begin(r, "DeleteRow", [table |-> t, id |-> i], FALSE, "")

\* SELECT 1 FROM <table> WHERE <id column> = :id
DeleteRowCheck(r) ==
  /\ op[r] = "DeleteRow" /\ pc[r] = "check"
  /\ IF NothingToDelete(RowsOf(db[arg[r].table], arg[r].id))
     THEN Respond(r, 404, "not found")
     ELSE /\ pc' = [pc EXCEPT ![r] = "delete"]
          /\ UNCHANGED resp
  /\ UNCHANGED <<db, seq, rev, op, conn, arg, loc, pre>>

\* DELETE FROM <table> WHERE <id column> = :id, autoCommit; res.json(...)
DeleteRowExec(r) ==
  /\ op[r] = "DeleteRow" /\ pc[r] = "delete"
  /\ db' = [db EXCEPT ![arg[r].table] = {x \in @ : x.id # arg[r].id}]
  /\ Respond(r, 200, "deleted")
  /\ UNCHANGED <<seq, rev, op, conn, arg, loc, pre>>

(* ------------------------------- artists ------------------------------- *)

\* req.body of POST /artists: managerId 0 is a body without managerId
ArtistBody == [name |-> "n", genre |-> "g", contactInfo |-> "c", managerId |-> 0]

ArtistBodies ==
  {[ArtistBody EXCEPT !.managerId = m] : m \in 0..2}
  \cup {[ArtistBody EXCEPT !.name = ""], [ArtistBody EXCEPT !.genre = ""],
        [ArtistBody EXCEPT !.contactInfo = ""]}
  \cup {[ArtistBody EXCEPT !.name = "", !.managerId = 2]}

\* if (managerCheck.rows.length === 0): the manager does not exist
ManagerCheckNeverFails(rows) == FALSE
ManagerMissing(rows) == Cardinality(rows) = 0

\* POST /artists: if (!name || !genre || !contactInfo)
CreateArtistStart(r) ==
  \E b \in ArtistBodies :
    Begin(r, "CreateArtist", b,
          b.name = "" \/ b.genre = "" \/ b.contactInfo = "", "required")

\* SELECT 1 FROM STAFF WHERE STAFF_ID = :id
ArtistCheck(r) ==
  /\ op[r] = "CreateArtist" /\ pc[r] = "check"
  /\ IF ManagerMissing(RowsOf(db.staff, arg[r].managerId))
     THEN Respond(r, 404, "Specified manager not found")
     ELSE /\ pc' = [pc EXCEPT ![r] = "seq"]
          /\ UNCHANGED resp
  /\ UNCHANGED <<db, seq, rev, op, conn, arg, loc, pre>>

\* SELECT ARTIST_SEQ.NEXTVAL FROM DUAL
ArtistSeq(r) ==
  /\ op[r] = "CreateArtist" /\ pc[r] = "seq"
  /\ loc' = [loc EXCEPT ![r] = [id |-> seq.artist]]
  /\ seq' = [seq EXCEPT !.artist = NextVal(@)]
  /\ pc' = [pc EXCEPT ![r] = "insert"]
  /\ UNCHANGED <<db, rev, op, conn, resp, arg, pre>>

\* INSERT INTO ARTISTS (..., MANAGER_ID) VALUES (..., :managerId)
ArtistInsert(r) ==
  /\ op[r] = "CreateArtist" /\ pc[r] = "insert"
  /\ db' = [db EXCEPT !.artists = @ \cup
              {[id |-> loc[r].id, manager |-> arg[r].managerId]}]
  /\ pc' = [pc EXCEPT ![r] = "refetch"]
  /\ UNCHANGED <<seq, rev, op, conn, resp, arg, loc, pre>>

\* ARTISTS A LEFT JOIN STAFF S WHERE A.ARTIST_ID = :id: a row per artist
ArtistJoin(d, i) == RowsOf(d.artists, i)

\* the re-fetch of the created artist, result.rows[0][0], 201
ArtistRefetch(r) ==
  /\ op[r] = "CreateArtist" /\ pc[r] = "refetch"
  /\ IF ArtistJoin(db, loc[r].id) = {}
     THEN Respond(r, 500, "Failed to create artist")
     ELSE Respond(r, 201, "artist")
  /\ UNCHANGED <<db, seq, rev, op, conn, arg, loc, pre>>

(* ----------------------------- sponsorships ---------------------------- *)

\* req.body of POST /sponsorships; the older revision does not read concertId
SponsorBody ==
  [name |-> "n", contactInfo |-> "c", contributionAmt |-> 1, concertId |-> 1]

SponsorBodies ==
  {[SponsorBody EXCEPT !.concertId = c] : c \in 0..2}
  \cup {[SponsorBody EXCEPT !.name = ""],
        [SponsorBody EXCEPT !.contactInfo = ""],
        [SponsorBody EXCEPT !.contributionAmt = 0]}

\* if (concertCheck.rows.length === 0): the concert does not exist
SponsorCheckNeverFails(rows) == FALSE
SponsorConcertMissing(rows) == Cardinality(rows) = 0

\* POST /sponsorships, later revision:
\* if (!name || !contactInfo || !contributionAmt || !concertId)
SponsorStart(r) ==
  /\ rev = "new"
  /\ \E b \in SponsorBodies :
       Begin(r, "CreateSponsorship", b,
             \/ b.name = "" \/ b.contactInfo = ""
             \/ b.contributionAmt = 0 \/ b.concertId = 0, "required")

\* POST /sponsorships, older revision:
\* if (!name || !contactInfo || !contributionAmt)
SponsorOldStart(r) ==
  /\ rev = "old"
  /\ \E b \in SponsorBodies :
       Begin(r, "CreateSponsorshipOld", b,
             b.name = "" \/ b.contactInfo = "" \/ b.contributionAmt = 0,
             "required")

\* SELECT 1 FROM CONCERTS WHERE CONCERT_ID = :concertId; seen records the
\* concerts that exist when the check runs
SponsorCheck(r) ==
  /\ op[r] = "CreateSponsorship" /\ pc[r] = "check"
  /\ loc' = [loc EXCEPT ![r] = [id |-> 0, seen |-> Ids(db.concerts)]]
  /\ IF SponsorConcertMissing(RowsOf(db.concerts, arg[r].concertId))
     THEN Respond(r, 404, "Concert not found")
     ELSE /\ pc' = [pc EXCEPT ![r] = "seq"]
          /\ UNCHANGED resp
  /\ UNCHANGED <<db, seq, rev, op, conn, arg, pre>>

\* SELECT SPONSOR_SEQ.NEXTVAL FROM DUAL
SponsorSeq(r) ==
  /\ op[r] \in {"CreateSponsorship", "CreateSponsorshipOld"} /\ pc[r] = "seq"
  /\ loc' = [loc EXCEPT ![r] =
               [id |-> seq.sponsorship,
                seen |-> IF op[r] = "CreateSponsorship" THEN @.seen ELSE {}]]
  /\ seq' = [seq EXCEPT !.sponsorship = NextVal(@)]
  /\ pc' = [pc EXCEPT ![r] = "insert"]
  /\ UNCHANGED <<db, rev, op, conn, resp, arg, pre>>

\* INSERT INTO SPONSORSHIPS (..., CONCERT_ID); the older revision names no
\* CONCERT_ID column, the row's is NULL, and it answers 201 from the body
SponsorInsert(r) ==
  /\ op[r] \in {"CreateSponsorship", "CreateSponsorshipOld"}
  /\ pc[r] = "insert"
  /\ db' = [db EXCEPT !.sponsorships = @ \cup
              {[id |-> loc[r].id,
                concert |-> IF op[r] = "CreateSponsorship"
                            THEN arg[r].concertId ELSE 0]}]
  /\ IF op[r] = "CreateSponsorship"
     THEN pc' = [pc EXCEPT ![r] = "refetch"] /\ UNCHANGED resp
     ELSE Respond(r, 201, "sponsorship")
  /\ UNCHANGED <<seq, rev, op, conn, arg, loc, pre>>

\* SPONSORSHIPS S JOIN CONCERTS C WHERE S.SPONSOR_ID = :sponsorId
SponsorJoin(d, i) ==
  {<<x, c>> \in d.sponsorships \X d.concerts : x.id = i /\ x.concert = c.id}

\* the re-fetch of the created sponsorship: row[0] throws when the join is
\* empty
SponsorRefetch(r) ==
  /\ op[r] = "CreateSponsorship" /\ pc[r] = "refetch"
  /\ IF SponsorJoin(db, loc[r].id) = {}
     THEN Respond(r, 500, "Failed to create sponsorship")
     ELSE Respond(r, 201, "sponsorship")
  /\ UNCHANGED <<db, seq, rev, op, conn, arg, loc, pre>>

(* ----------------------------- admin login ----------------------------- *)

\* rows of ADMIN_USERS: an active admin and an inactive one, neither has
\* logged in yet
SeedAdmins ==
  {[id |-> 1, username |-> "u", password |-> "p", active |-> 1,
    lastLogin |-> 0],
   [id |-> 2, username |-> "v", password |-> "p", active |-> 0,
    lastLogin |-> 0]}

\* WHERE USERNAME = :username AND PASSWORD = :password AND IS_ACTIVE = 1
AdminMatchesIgnoresActive(a, u, p) == a.username = u /\ a.password = p
AdminMatches(a, u, p) == a.username = u /\ a.password = p /\ a.active = 1

\* POST /admin/login: if (!username || !password)
AdminLoginStart(r) ==
  \E u \in {"", "u", "v"}, p \in {"", "p", "q"} :
    Begin(r, "AdminLogin", [username |-> u, password |-> p],
          u = "" \/ p = "", "required")

\* SELECT ADMIN_ID, USERNAME FROM ADMIN_USERS WHERE ...; 401 for no row,
\* otherwise admin is result.rows[0]
AdminLoginExec(r) ==
  /\ op[r] = "AdminLogin" /\ pc[r] = "exec"
  /\ LET rows == {a \in db.admins :
                    AdminMatches(a, arg[r].username, arg[r].password)} IN
       IF rows = {}
       THEN Respond(r, 401, "Invalid credentials") /\ UNCHANGED loc
       ELSE \E a \in rows :
              /\ loc' = [loc EXCEPT ![r] = [adminId |-> a.id]]
              /\ pc' = [pc EXCEPT ![r] = "update"]
              /\ UNCHANGED resp
  /\ UNCHANGED <<db, seq, rev, op, conn, arg, pre>>

\* UPDATE ADMIN_USERS SET LAST_LOGIN_DATE = CURRENT_TIMESTAMP
\* WHERE ADMIN_ID = :adminId, autoCommit; res.json({success: true, ...})
AdminLoginUpdate(r) ==
  /\ op[r] = "AdminLogin" /\ pc[r] = "update"
  /\ db' = [db EXCEPT !.admins =
              {IF a.id = loc[r].adminId
               THEN [a EXCEPT !.lastLogin = seq.clock] ELSE a : a \in @}]
  /\ seq' = [seq EXCEPT !.clock = @ + 1]
  /\ Respond(r, 200, "login")
  /\ UNCHANGED <<rev, op, conn, arg, loc, pre>>

(* ------------------------- streaming platforms ------------------------- *)

\* STREAMING_PACKAGE.DELETE_STREAMING_PLATFORM(:id, v_status): the status it
\* binds out and the tables it leaves
DeleteStreamingPlatform(d, i) ==
  IF RowsOf(d.platforms, i) = {}
  THEN [status |-> "Platform not found", db |-> d]
  ELSE [status |-> "Platform deleted successfully",
        db |-> [d EXCEPT !.platforms = {x \in @ : x.id # i}]]

\* the answer DELETE /streaming/:id (package revision) gives for a status
PlatformAnswer(status) ==
  IF Includes(status, "successfully") THEN 200
  ELSE IF Includes(status, "not found") THEN 404
  ELSE 500

\* DELETE /streaming/:id, package revision
DeletePlatformStart(r) ==
  \E i \in 1..2 : Begin(r, "DeletePlatform", [id |-> i], FALSE, "")

\* the package call; the body of every answer is the status
DeletePlatformExec(r) ==
  /\ op[r] = "DeletePlatform" /\ pc[r] = "exec"
  /\ LET out == DeleteStreamingPlatform(db, arg[r].id) IN
       /\ db' = out.db
       /\ Respond(r, PlatformAnswer(out.status), out.status)
  /\ UNCHANGED <<seq, rev, op, conn, arg, loc, pre>>

(* ------------------------------- summary ------------------------------- *)

\* GET_CONCERT_SUMMARY(:id, ...): the values it binds out for concert row c.
\* isSoldOut is the number 1 when the tickets sold have reached the limit and
\* 0 otherwise.
GetConcertSummary(d, c) ==
  LET sold == SoldTickets(d, c.id) IN
  [price |-> c.price, ticketLimit |-> c.limit, ticketsSold |-> sold,
   isSoldOut |-> IF sold >= c.limit THEN 1 ELSE 0]

\* isSoldOut: result.outBinds.isSoldOut === 1
IsSoldOutComparesString(n) == FALSE
IsSoldOut(n) == n = 1

\* GET /concerts/:id/summary
SummaryStart(r) ==
  \E i \in 1..2 : Begin(r, "Summary", [id |-> i], FALSE, "")

\* the procedure call; it raises ORA-20001 for an id no concert has, which the
\* catch block answers with 404; otherwise res.json(summary)
SummaryExec(r) ==
  /\ op[r] = "Summary" /\ pc[r] = "exec"
  /\ LET rows == RowsOf(db.concerts, arg[r].id) IN
       IF rows = {}
       THEN Respond(r, 404, "Concert not found") /\ UNCHANGED loc
       ELSE \E c \in rows :
              LET out == GetConcertSummary(db, c) IN
              /\ loc' = [loc EXCEPT ![r] =
                           [currentPrice |-> out.price,
                            ticketLimit |-> out.ticketLimit,
                            ticketsSold |-> out.ticketsSold,
                            isSoldOut |-> IsSoldOut(out.isSoldOut)]]
              /\ Respond(r, 200, "summary")
  /\ UNCHANGED <<db, seq, rev, op, conn, arg, pre>>

(* ------------------------------- server -------------------------------- *)

\* startServer() runs in slot Boot; its position is pc[Boot], the test
\* connection is conn[Boot], and loc[Boot] holds what it has done to app and
\* to the process
Boot == 1

\* app.use(prefix, router) of index.js
Routers ==
  {"auth", "admin", "staff", "sponsorships", "streaming", "artists", "venues",
   "concerts"}

\* tested: the outcome of the test connection, exit: the code of
\* process.exit, 0 while the process runs
NotStarted ==
  [tested |-> "pending", mounted |-> {}, listening |-> FALSE, exit |-> 0]

\* catch (err) { console.error(...); process.exit(1) }
ServerCatchFallsThrough(l) ==
  [l EXCEPT !.tested = "failed", !.mounted = Routers, !.listening = TRUE]
ServerCatch(l) == [l EXCEPT !.tested = "failed", !.exit = 1]

ServerAfter(l) == IF l.exit # 0 THEN "exited" ELSE "listening"

\* const connection = await connectToDB(): connectToDB logs and rethrows what
\* oracledb.getConnection throws
ServerTest ==
  /\ pc[Boot] = "testing"
  /\ \/ /\ conn' = [conn EXCEPT ![Boot] = "open"]
        /\ pc' = [pc EXCEPT ![Boot] = "closing"]
        /\ UNCHANGED loc
     \/ /\ loc' = [loc EXCEPT ![Boot] = ServerCatch(@)]
        /\ pc' = [pc EXCEPT ![Boot] = ServerAfter(loc'[Boot])]
        /\ UNCHANGED conn
  /\ UNCHANGED <<db, seq, rev, op, resp, arg, pre>>

\* await connection.close(), then without another await every app.use and
\* app.listen(port); a close that throws is caught like a failed connect
ServerListen ==
  /\ pc[Boot] = "closing"
  /\ \/ /\ conn' = [conn EXCEPT ![Boot] = "closed"]
        /\ loc' = [loc EXCEPT ![Boot] =
                     [@ EXCEPT !.tested = "ok", !.mounted = Routers,
                               !.listening = TRUE]]
        /\ pc' = [pc EXCEPT ![Boot] = "listening"]
     \/ /\ loc' = [loc EXCEPT ![Boot] = ServerCatch(@)]
        /\ pc' = [pc EXCEPT ![Boot] = ServerAfter(loc'[Boot])]
        /\ UNCHANGED conn
  /\ UNCHANGED <<db, seq, rev, op, resp, arg, pre>>

\* a request reaches a handler of a router only through a listening server
\* that has the router mounted
Serves(router) ==
  /\ loc[Boot].listening
  /\ loc[Boot].exit = 0
  /\ router \in loc[Boot].mounted

(* -------------------------------- staff -------------------------------- *)

\* req.body of POST /staff
StaffBodies ==
  {[name |-> "n", role |-> "m"], [name |-> "", role |-> "m"],
   [name |-> "n", role |-> ""]}

\* POST /staff: if (!name || !role)
CreateStaffStart(r) ==
  \E b \in StaffBodies :
    Begin(r, "CreateStaff", b, b.name = "" \/ b.role = "", "required")

\* SELECT STAFF_SEQ.NEXTVAL FROM DUAL
StaffSeq(r) ==
  /\ op[r] = "CreateStaff" /\ pc[r] = "seq"
  /\ loc' = [loc EXCEPT ![r] = [id |-> seq.staff]]
  /\ seq' = [seq EXCEPT !.staff = NextVal(@)]
  /\ pc' = [pc EXCEPT ![r] = "insert"]
  /\ UNCHANGED <<db, rev, op, conn, resp, arg, pre>>

\* INSERT INTO STAFF (STAFF_ID, NAME, ROLE), autoCommit; 201 with staffId
StaffInsert(r) ==
  /\ op[r] = "CreateStaff" /\ pc[r] = "insert"
  /\ db' = [db EXCEPT !.staff = @ \cup {[id |-> loc[r].id]}]
  /\ Respond(r, 201, "staff")
  /\ UNCHANGED <<seq, rev, op, conn, arg, loc, pre>>

(* ------------------------------ seeding -------------------------------- *)

\* the rows the end-to-end path of the specification creates before tickets
\* are sold: a venue, a manager, an artist, a concert that refers to them, an
\* attendee
SeedVenue == [id |-> 1, capacity |-> 1]
SeedStaff == [id |-> 1]
SeedArtist == [id |-> 1, manager |-> 1]
SeedConcert(i, limit, status) ==
  [id |-> i, name |-> "n", date |-> "d", time |-> "t", venue |-> 1,
   artist |-> 1, manager |-> 1, limit |-> limit, price |-> SeedPrice,
   status |-> status, description |-> "x"]
SeedAttendee == [rid |-> 1, id |-> 1, contact |-> "a", password |-> "p"]

EmptyDb ==
  [venues |-> {}, concerts |-> {}, attendees |-> {}, tickets |-> {},
   feedback |-> {}, staff |-> {}, artists |-> {}, sponsorships |-> {},
   admins |-> {}, platforms |-> {}]

\* every sequence stands above the ids of the seeded rows; clock is the
\* database's CURRENT_TIMESTAMP
FirstSeq == [ticket |-> 1, attendee |-> 2, venue |-> 2, concert |-> 3,
             feedback |-> 1, rowid |-> 2, artist |-> 2, sponsorship |-> 1,
             staff |-> 2, clock |-> 1]

IdleSlots ==
  /\ op = [r \in Reqs |-> "none"]
  /\ pc = [r \in Reqs |-> "idle"]
  /\ conn = [r \in Reqs |-> "none"]
  /\ resp = [r \in Reqs |-> NoResp]
  /\ arg = [r \in Reqs |-> NoArg]
  /\ loc = [r \in Reqs |-> NoLoc]
  /\ pre = [r \in Reqs |-> EmptyDb]

SeededDb(limit, status) ==
  [EmptyDb EXCEPT !.venues = {SeedVenue},
                  !.staff = {SeedStaff},
                  !.artists = {SeedArtist},
                  !.concerts = {SeedConcert(1, limit, status)},
                  !.attendees = {SeedAttendee}]

InitTicketsSerial ==
  /\ \E limit \in 1..MaxLimit : db = SeededDb(limit, "Scheduled")
  /\ seq = FirstSeq
  /\ rev = "new"
  /\ IdleSlots

InitTickets ==
  /\ \E limit \in 1..MaxLimit : db = SeededDb(limit, "Scheduled")
  /\ seq = FirstSeq
  /\ rev \in {"new", "old"}
  /\ IdleSlots

InitRegister ==
  /\ \E people \in {{}, {SeedAttendee}} :
       db = [SeededDb(1, "Scheduled") EXCEPT !.attendees = people]
  /\ seq = FirstSeq
  /\ rev \in {"max", "seq"}
  /\ IdleSlots

(* --------------------------- specifications ---------------------------- *)

TicketSteps(r) ==
  \/ TicketStart(r) /\ seq.ticket <= MaxSeq
  \/ Connect(r)
  \/ TicketCheck(r)
  \/ TicketSeq(r)
  \/ TicketInsert(r)
  \/ TicketRefetch(r)
  \/ Finally(r)

\* POST /tickets requests, one after the other
NextTicketsSerial == \E r \in SeqReqs : Arrival(r) /\ TicketSteps(r)

SpecTicketsSerial == InitTicketsSerial /\ [][NextTicketsSerial]_vars

\* POST /tickets requests in flight together, either revision deployed
NextTickets ==
  \E r \in Reqs :
    /\ NoRecord
    /\ \/ TicketSteps(r)
       \/ TicketOldStart(r) /\ seq.ticket <= MaxSeq

SpecTickets == InitTickets /\ [][NextTickets]_vars

RegisterSteps(r) ==
  \/ RegisterStart(r) /\ seq.rowid <= MaxSeq
  \/ Connect(r)
  \/ RegisterCheck(r)
  \/ RegisterNextId(r)
  \/ RegisterInsert(r)
  \/ Finally(r)

\* POST /register requests, one after the other
NextRegisterSerial == \E r \in SeqReqs : Arrival(r) /\ RegisterSteps(r)

SpecRegisterSerial == InitRegister /\ [][NextRegisterSerial]_vars

\* POST /register requests in flight together
NextRegister == \E r \in Reqs : NoRecord /\ RegisterSteps(r)

SpecRegister == InitRegister /\ [][NextRegister]_vars

\* the seeded rows; the venue may have been deleted since (DELETE /venues/:id
\* looks for no concert that refers to it)
InitSeeded ==
  /\ \E halls \in {{}, {SeedVenue}} :
       db = [SeededDb(1, "Completed") EXCEPT !.venues = halls]
  /\ seq = FirstSeq
  /\ rev = "max"
  /\ IdleSlots

FeedbackSteps(r) ==
  \/ FeedbackStart(r) /\ seq.feedback <= MaxSeq
  \/ FeedbackCheck(r)
  \/ FeedbackSeq(r)
  \/ FeedbackInsert(r)
  \/ FeedbackRefetch(r)

\* requests one after the other, any awaited database call may throw
NextFaults ==
  \E r \in SeqReqs :
    /\ Arrival(r)
    /\ \/ LoginStart(r)
       \/ LoginExec(r)
       \/ LoginClose(r)
       \/ DashboardStart(r)
       \/ DashboardExec(r)
       \/ DashboardFetch(r)
       \/ FeedbackSteps(r)
       \/ Connect(r)
       \/ Finally(r)
       \/ Fault(r)

SpecFaults == InitSeeded /\ [][NextFaults]_vars

\* POST feedback requests, one after the other, no call throws
NextFeedbackSerial ==
  \E r \in SeqReqs :
    Arrival(r) /\ (FeedbackSteps(r) \/ Connect(r) \/ Finally(r))

SpecFeedbackSerial == InitSeeded /\ [][NextFeedbackSerial]_vars

\* POST /venues requests, one after the other
NextVenuesSerial ==
  \E r \in SeqReqs :
    /\ Arrival(r)
    /\ \/ VenueStart(r) /\ seq.venue <= MaxSeq
       \/ Connect(r)
       \/ VenueSeq(r)
       \/ VenueInsert(r)
       \/ Finally(r)

SpecVenuesSerial == InitSeeded /\ [][NextVenuesSerial]_vars

\* STATUS is what PUT /concerts/:id was given; POST /concerts writes Scheduled
Statuses == {"Scheduled", "Completed", "Canceled"}

\* two concerts of any status, the first with a ticket sold
InitConcerts ==
  /\ \E s1, s2 \in Statuses :
       db = [SeededDb(1, s1) EXCEPT
               !.concerts = @ \cup {SeedConcert(2, 1, s2)},
               !.tickets = {[id |-> 1, price |-> SeedPrice, concert |-> 1,
                             attendee |-> 1]}]
  /\ seq = [FirstSeq EXCEPT !.ticket = 2]
  /\ rev = "new"
  /\ IdleSlots

\* DELETE /concerts/:id and GET /concerts/:id, one after the other
NextConcertsSerial ==
  \E r \in SeqReqs :
    /\ Arrival(r)
    /\ \/ DeleteConcertStart(r)
       \/ DeleteConcertExec(r)
       \/ GetConcertStart(r)
       \/ GetConcertExec(r)
       \/ Connect(r)
       \/ Finally(r)

SpecConcertsSerial == InitConcerts /\ [][NextConcertsSerial]_vars

\* tickets sold without a sold-out check (older revision), so that a concert
\* can stand below, at and above its limit
InitSummary ==
  /\ \E limit \in 1..MaxLimit : db = SeededDb(limit, "Scheduled")
  /\ seq = FirstSeq
  /\ rev = "old"
  /\ IdleSlots

\* POST /tickets (older revision) and GET /concerts/:id/summary, one after
\* the other
NextSummarySerial ==
  \E r \in SeqReqs :
    /\ Arrival(r)
    /\ \/ TicketOldStart(r) /\ seq.ticket <= MaxSeq
       \/ TicketSeq(r)
       \/ TicketInsert(r)
       \/ TicketRefetch(r)
       \/ SummaryStart(r)
       \/ SummaryExec(r)
       \/ Connect(r)
       \/ Finally(r)

SpecSummarySerial == InitSummary /\ [][NextSummarySerial]_vars

\* a concert of any status and the rows it refers to
InitConcertWrites ==
  /\ \E s \in Statuses : db = SeededDb(1, s)
  /\ seq = FirstSeq
  /\ rev = "new"
  /\ IdleSlots

ConcertWriteSteps(r) ==
  \/ CreateConcertStart(r) /\ seq.concert <= MaxSeq
  \/ ConcertSeq(r)
  \/ ConcertInsert(r)
  \/ UpdateConcertStart(r)
  \/ UpdateConcertCheck(r)
  \/ UpdateConcertExec(r)
  \/ ConcertRefetch(r)

\* POST /concerts and PUT /concerts/:id requests, one after the other
NextConcertWritesSerial ==
  \E r \in SeqReqs :
    Arrival(r) /\ (ConcertWriteSteps(r) \/ Connect(r) \/ Finally(r))

SpecConcertWritesSerial ==
  InitConcertWrites /\ [][NextConcertWritesSerial]_vars

\* the seeded rows and a ticket of the seeded concert
InitDeletes ==
  /\ db = [SeededDb(1, "Scheduled") EXCEPT
             !.tickets = {[id |-> 1, price |-> SeedPrice, concert |-> 1,
                           attendee |-> 1]}]
  /\ seq = [FirstSeq EXCEPT !.ticket = 2]
  /\ rev = "new"
  /\ IdleSlots

\* DELETE /:id requests, one after the other
NextDeletesSerial ==
  \E r \in SeqReqs :
    /\ Arrival(r)
    /\ \/ DeleteRowStart(r)
       \/ DeleteRowCheck(r)
       \/ DeleteRowExec(r)
       \/ Connect(r)
       \/ Finally(r)

SpecDeletesSerial == InitDeletes /\ [][NextDeletesSerial]_vars

\* the seeded rows, with or without a second staff member
InitArtists ==
  /\ \E team \in {{SeedStaff}, {SeedStaff, [id |-> 2]}} :
       db = [SeededDb(1, "Scheduled") EXCEPT !.staff = team]
  /\ seq = FirstSeq
  /\ rev = "new"
  /\ IdleSlots

\* POST /artists requests, one after the other
NextArtistsSerial ==
  \E r \in SeqReqs :
    /\ Arrival(r)
    /\ \/ CreateArtistStart(r) /\ seq.artist <= MaxSeq
       \/ ArtistCheck(r)
       \/ ArtistSeq(r)
       \/ ArtistInsert(r)
       \/ ArtistRefetch(r)
       \/ Connect(r)
       \/ Finally(r)

SpecArtistsSerial == InitArtists /\ [][NextArtistsSerial]_vars

InitSponsors ==
  /\ \E limit \in 1..MaxLimit : db = SeededDb(limit, "Scheduled")
  /\ seq = FirstSeq
  /\ rev \in {"new", "old"}
  /\ IdleSlots

SponsorSteps(r) ==
  \/ SponsorStart(r) /\ seq.sponsorship <= MaxSeq
  \/ SponsorOldStart(r) /\ seq.sponsorship <= MaxSeq
  \/ SponsorCheck(r)
  \/ SponsorSeq(r)
  \/ SponsorInsert(r)
  \/ SponsorRefetch(r)

\* POST /sponsorships requests, one after the other
NextSponsorsSerial ==
  \E r \in SeqReqs :
    Arrival(r) /\ (SponsorSteps(r) \/ Connect(r) \/ Finally(r))

SpecSponsorsSerial == InitSponsors /\ [][NextSponsorsSerial]_vars

\* the seeded rows and the admins
InitAdmin ==
  /\ \E limit \in 1..MaxLimit :
       db = [SeededDb(limit, "Scheduled") EXCEPT !.admins = SeedAdmins]
  /\ seq = FirstSeq
  /\ rev = "new"
  /\ IdleSlots

\* POST /admin/login requests, one after the other
NextAdminSerial ==
  \E r \in SeqReqs :
    /\ Arrival(r)
    /\ \/ AdminLoginStart(r) /\ seq.clock <= MaxSeq
       \/ AdminLoginExec(r)
       \/ AdminLoginUpdate(r)
       \/ Connect(r)
       \/ Finally(r)

SpecAdminSerial == InitAdmin /\ [][NextAdminSerial]_vars

\* POST /tickets (sold-out-checking revision) and PUT /concerts/:id requests
\* that change the price, in flight together
NextTicketPrice ==
  \E r \in Reqs :
    /\ NoRecord
    /\ \/ TicketSteps(r)
       \/ UpdateConcertWith(r, RepriceBodies)
       \/ UpdateConcertCheck(r)
       \/ UpdateConcertExec(r)
       \/ ConcertRefetch(r)

SpecTicketPrice == InitTicketsSerial /\ [][NextTicketPrice]_vars

\* a concert of any status, the admins and a streaming platform
InitFaultText ==
  /\ \E s \in Statuses :
       db = [SeededDb(1, s) EXCEPT !.admins = SeedAdmins,
                                   !.platforms = {[id |-> 1]}]
  /\ seq = FirstSeq
  /\ rev = "new"
  /\ IdleSlots

\* requests to handlers of every route file, one after the other, any
\* awaited database call may throw
NextFaultText ==
  \E r \in SeqReqs :
    /\ Arrival(r)
    /\ \/ DeleteConcertStart(r)
       \/ DeleteConcertExec(r)
       \/ DeletePlatformStart(r)
       \/ DeletePlatformExec(r)
       \/ GetConcertStart(r)
       \/ GetConcertExec(r)
       \/ SummaryStart(r)
       \/ SummaryExec(r)
       \/ DeleteRowStart(r)
       \/ DeleteRowCheck(r)
       \/ DeleteRowExec(r)
       \/ AdminLoginStart(r) /\ seq.clock <= MaxSeq
       \/ AdminLoginExec(r)
       \/ AdminLoginUpdate(r)
       \/ LoginStart(r)
       \/ LoginExec(r)
       \/ LoginClose(r)
       \/ Connect(r)
       \/ Finally(r)
       \/ Fault(r)

SpecFaultText == InitFaultText /\ [][NextFaultText]_vars

\* PUT /concerts/:id and DELETE /concerts/:id requests, one after the other
NextStatusSerial ==
  \E r \in SeqReqs :
    /\ Arrival(r)
    /\ \/ UpdateConcertStart(r)
       \/ UpdateConcertCheck(r)
       \/ UpdateConcertExec(r)
       \/ ConcertRefetch(r)
       \/ DeleteConcertStart(r)
       \/ DeleteConcertExec(r)
       \/ Connect(r)
       \/ Finally(r)

SpecStatusSerial == InitConcertWrites /\ [][NextStatusSerial]_vars


\* the seeded rows, the concert of any status
InitHandlers ==
  /\ \E s \in Statuses : db = SeededDb(1, s)
  /\ seq = FirstSeq
  /\ rev = "new"
  /\ IdleSlots

\* requests to the handlers that validate or look a row up before they write,
\* one after the other
NextHandlersSerial ==
  \E r \in SeqReqs :
    /\ Arrival(r)
    /\ \/ TicketSteps(r)
       \/ RegisterSteps(r)
       \/ CreateArtistStart(r) /\ seq.artist <= MaxSeq
       \/ ArtistCheck(r)
       \/ ArtistSeq(r)
       \/ ArtistInsert(r)
       \/ ArtistRefetch(r)
       \/ UpdateConcertStart(r)
       \/ UpdateConcertCheck(r)
       \/ UpdateConcertExec(r)
       \/ ConcertRefetch(r)

SpecHandlersSerial == InitHandlers /\ [][NextHandlersSerial]_vars


\* POST /sponsorships (later revision) and DELETE /concerts/:id requests in
\* flight together
NextSponsorRace ==
  \E r \in Reqs :
    /\ NoRecord
    /\ \/ SponsorStart(r) /\ seq.sponsorship <= MaxSeq
       \/ SponsorCheck(r)
       \/ SponsorSeq(r)
       \/ SponsorInsert(r)
       \/ SponsorRefetch(r)
       \/ DeleteConcertStart(r)
       \/ DeleteConcertExec(r)
       \/ Connect(r)
       \/ Finally(r)

SpecSponsorRace == InitTicketsSerial /\ [][NextSponsorRace]_vars


\* two concerts of any status; startServer() has been called and stands at
\* its first await
InitServer ==
  /\ \E s1, s2 \in Statuses :
       db = [SeededDb(1, s1) EXCEPT
               !.concerts = @ \cup {SeedConcert(2, 1, s2)}]
  /\ seq = FirstSeq
  /\ rev = "new"
  /\ op = [r \in Reqs |-> IF r = Boot THEN "startServer" ELSE "none"]
  /\ pc = [r \in Reqs |-> IF r = Boot THEN "testing" ELSE "idle"]
  /\ conn = [r \in Reqs |-> "none"]
  /\ resp = [r \in Reqs |-> NoResp]
  /\ arg = [r \in Reqs |-> NoArg]
  /\ loc = [r \in Reqs |-> IF r = Boot THEN NotStarted ELSE NoLoc]
  /\ pre = [r \in Reqs |-> EmptyDb]

\* startServer(), and the requests to the concerts router that the server
\* takes once it listens
NextServer ==
  \/ ServerTest
  \/ ServerListen
  \/ \E r \in Reqs \ {Boot} :
       /\ NoRecord
       /\ \/ Serves("concerts") /\ GetConcertStart(r)
          \/ Serves("concerts") /\ DeleteConcertStart(r)
          \/ GetConcertExec(r)
          \/ DeleteConcertExec(r)
          \/ Connect(r)
          \/ Finally(r)

SpecServer == InitServer /\ [][NextServer]_vars


\* the steps of a request that has arrived: each is the continuation of an
\* awaited call, which returns or throws
AnswerSteps(r) ==
  \/ DeleteConcertExec(r)
  \/ DeletePlatformExec(r)
  \/ LoginExec(r)
  \/ LoginClose(r)
  \/ Connect(r)
  \/ Finally(r)
  \/ Fault(r)

\* DELETE /concerts/:id, DELETE /streaming/:id (package revision) and POST
\* /login requests, one after the other, any awaited database call may throw
NextAnswers ==
  \E r \in SeqReqs :
    /\ Arrival(r)
    /\ \/ DeleteConcertStart(r)
       \/ DeletePlatformStart(r)
       \/ LoginStart(r)
       \/ AnswerSteps(r)

SpecAnswers == InitFaultText /\ [][NextAnswers]_vars

\* every awaited call settles, and node runs the continuation
SpecAnswersFair ==
  SpecAnswers /\ \A r \in SeqReqs : WF_vars(Arrival(r) /\ AnswerSteps(r))


\* the seeded rows; the routers that draw ids from sequences are deployed
InitCreates ==
  /\ \E limit \in 1..MaxLimit : db = SeededDb(limit, "Scheduled")
  /\ seq = FirstSeq
  /\ rev \in {"new", "old"}
  /\ IdleSlots

\* the requests taken so far are requests to the handlers ops: the creates in
\* flight together are creates of one entity type
OnlyTaken(ops) == \A q \in Reqs : op[q] \in ops \cup {"none"}

\* POST /staff requests in flight together, or POST /register requests
\* (sequence revision), or POST /tickets requests (either revision)
NextCreates ==
  \E r \in Reqs :
    /\ NoRecord
    /\ \/ /\ OnlyTaken({"CreateStaff"})
          /\ \/ CreateStaffStart(r) /\ seq.staff <= MaxSeq
             \/ StaffSeq(r)
             \/ StaffInsert(r)
       \/ OnlyTaken({"Register"}) /\ RegisterSteps(r)
       \/ /\ OnlyTaken({"CreateTicket", "CreateTicketOld"})
          /\ \/ TicketSteps(r) /\ arg'[r] = [concertId |-> 1, attendeeId |-> 1]
             \/ /\ TicketOldStart(r) /\ seq.ticket <= MaxSeq
                /\ arg'[r].concertId = 1 /\ arg'[r].attendeeId = 1
       \/ Connect(r)
       \/ Finally(r)

SpecCreates == InitCreates /\ [][NextCreates]_vars


\* PUT /concerts/:id requests with complete bodies and GET /concerts/:id
\* requests, one after the other, each in a slot of its own so that the answer
\* of one is at hand when the other is answered
NextPutThenGet ==
  \E r \in Reqs :
    /\ \A q \in Reqs \ {r} : Quiet(q)
    /\ Arrival(r)
    /\ \/ UpdateConcertWith(r, RepriceBodies)
       \/ UpdateConcertCheck(r)
       \/ UpdateConcertExec(r)
       \/ ConcertRefetch(r)
       \/ GetConcertStart(r)
       \/ GetConcertExec(r)
       \/ Connect(r)
       \/ Finally(r)

SpecPutThenGet == InitConcertWrites /\ [][NextPutThenGet]_vars


\* POST /tickets (sold-out-checking revision) and DELETE /tickets/:id
\* requests, one after the other
NextTicketDeleteSerial ==
  \E r \in SeqReqs :
    /\ Arrival(r)
    /\ \/ TicketSteps(r)
       \/ DeleteRowStart(r) /\ arg'[r].table = "tickets"
       \/ DeleteRowCheck(r)
       \/ DeleteRowExec(r)

SpecTicketDeleteSerial == InitTicketsSerial /\ [][NextTicketDeleteSerial]_vars


\* DELETE /:id requests in flight together
NextDeletes ==
  \E r \in Reqs :
    /\ NoRecord
    /\ \/ DeleteRowStart(r)
       \/ DeleteRowCheck(r)
       \/ DeleteRowExec(r)
       \/ Connect(r)
       \/ Finally(r)

SpecDeletes == InitDeletes /\ [][NextDeletes]_vars

(* ------------------------------- claims -------------------------------- *)

Finished(r, o) == op[r] = o /\ pc[r] = "done"

\* C1: POST /tickets requests one after the other (sold-out-checking
\* revision): a request that arrives when the concert has ticketSalesLimit
\* tickets gets the 400 sold-out answer and the tables are as they were; a
\* request that arrives at ticketSalesLimit - 1 gets 201 and the tables differ
\* by exactly one ticket of that concert, which brings the count to the limit;
\* the count never passes the limit, so every later request is of the first kind.
C1_SoldOutBoundary ==
  /\ \A c \in db.concerts : SoldTickets(db, c.id) <= c.limit
  /\ \A r \in SeqReqs :
       (/\ Finished(r, "CreateTicket")
        /\ arg[r].concertId # 0 /\ arg[r].attendeeId # 0) =>
         \A c \in RowsOf(pre[r].concerts, arg[r].concertId) :
           LET sold == SoldTickets(pre[r], c.id) IN
           /\ sold = c.limit =>
                /\ resp[r].code = 400 /\ resp[r].msg = "sold out"
                /\ db = pre[r]
           /\ sold = c.limit - 1 =>
                /\ resp[r].code = 201
                /\ \E t \in db.tickets \ pre[r].tickets :
                     /\ t.concert = c.id
                     /\ db = [pre[r] EXCEPT !.tickets = @ \cup {t}]
                /\ SoldTickets(db, c.id) = c.limit

\* a request was turned away as sold out after MaxLimit tickets were sold to
\* earlier requests
C1_Witness ==
  \E r \in SeqReqs :
    /\ Finished(r, "CreateTicket")
    /\ resp[r].msg = "sold out"
    /\ SoldTickets(db, 1) = MaxLimit
    /\ db = pre[r]

\* C2: under any interleaving of POST /tickets requests, no concert has more
\* ticket rows than its ticket sales limit.
C2_NeverOversold ==
  \A c \in db.concerts : SoldTickets(db, c.id) <= c.limit

\* C3: POST /register requests one after the other, all required fields given:
\* a request whose contactInfo no attendee holds gets 201 and the tables differ
\* by exactly one attendee with that contactInfo; a request whose contactInfo
\* an attendee holds (the second of two with the same contactInfo) gets 409
\* and the tables are as they were.
C3_SecondRegistrationConflicts ==
  \A r \in SeqReqs :
    (/\ Finished(r, "Register")
     /\ arg[r].name # "" /\ arg[r].contactInfo # "" /\ arg[r].password # "") =>
      LET taken == \E x \in pre[r].attendees : x.contact = arg[r].contactInfo IN
      /\ taken => resp[r].code = 409 /\ db = pre[r]
      /\ ~taken =>
           /\ resp[r].code = 201
           /\ \E x \in db.attendees \ pre[r].attendees :
                /\ x.contact = arg[r].contactInfo
                /\ db = [pre[r] EXCEPT !.attendees = @ \cup {x}]

\* the second registration with contactInfo "b" was answered 409: "b" is not
\* seeded, so the first one inserted it
C3_Witness ==
  \E r \in SeqReqs :
    /\ Finished(r, "Register")
    /\ arg[r].contactInfo = "b"
    /\ resp[r].code = 409
    /\ Cardinality({x \in db.attendees : x.contact = "b"}) = 1

\* C4: under any interleaving of POST /register requests, no two attendee rows
\* hold the same contactInfo.
C4_ContactUnique ==
  \A x, y \in db.attendees : x.contact = y.contact => x = y

\* C7: the id POST /register (routes/auth.js) is about to insert is the
\* greatest id that was in ATTENDEE when it was read, plus one: it was unused
\* at the read, and nothing reserves it afterwards (C7_Witness: two
\* registrations with different contactInfo read the same id, one has inserted
\* it and the other stands at its insert with that id).
C7_IdIsMaxAtReadPlusOne ==
  rev = "max" =>
    \A r \in Reqs :
      (op[r] = "Register" /\ pc[r] = "insert") =>
        /\ loc[r].id \notin loc[r].seen
        /\ loc[r].id = SetMax(loc[r].seen) + 1

C7_Witness ==
  /\ rev = "max"
  /\ \E r1, r2 \in Reqs :
       /\ r1 # r2
       /\ op[r1] = "Register" /\ pc[r1] = "insert"
       /\ op[r2] = "Register" /\ pc[r2] \in {"finally", "done"}
       /\ resp[r2].code = 201
       /\ loc[r1].id = loc[r2].id
       /\ arg[r1].contactInfo # arg[r2].contactInfo
       /\ \E x \in db.attendees :
            x.id = loc[r1].id /\ x.contact = arg[r2].contactInfo

\* C5: whatever path a handler takes (answer, early return, a database call
\* that throws), once it has finished it holds no open connection.
C5_ConnectionReleased ==
  \A r \in Reqs : pc[r] = "done" => conn[r] # "open"

\* C6: requests one after the other: when a request is answered with anything
\* but 200 or 201, the tables are what they were when it arrived.
C6_AllOrNothing ==
  \A r \in SeqReqs :
    (pc[r] = "done" /\ resp[r].code \notin {200, 201}) => db = pre[r]

\* C8: DELETE /concerts/:id and GET /concerts/:id one after the other: the
\* delete of a Completed concert is answered 400 and the tables are as they
\* were, the concert among them; the delete of a Scheduled concert is answered
\* 200 and no concert has that id afterwards; a GET for an id no concert has
\* (hence every GET that follows such a delete) is answered 404.
C8_DeleteByStatus ==
  \A r \in SeqReqs :
    /\ Finished(r, "DeleteConcert") =>
         \A c \in RowsOf(pre[r].concerts, arg[r].id) :
           /\ c.status = "Completed" =>
                resp[r].code = 400 /\ db = pre[r] /\ c \in db.concerts
           /\ c.status = "Scheduled" =>
                resp[r].code = 200 /\ RowsOf(db.concerts, c.id) = {}
    /\ Finished(r, "GetConcert") =>
         (RowsOf(db.concerts, arg[r].id) = {} => resp[r].code = 404)

\* GET /concerts/1 was answered 404: concert 1 is seeded, so a delete removed
\* it; concert 2 is Completed and in place
C8_Witness ==
  \E r \in SeqReqs :
    /\ Finished(r, "GetConcert")
    /\ arg[r].id = 1
    /\ resp[r].code = 404
    /\ \E c \in db.concerts : c.id = 2 /\ c.status = "Completed"

\* C9: POST /venues requests one after the other: capacity 0 or a negative
\* capacity is answered 400 and the tables are as they were; capacity 1 with
\* name and location is answered 201 and the tables differ by exactly one
\* venue, of capacity 1; every venue has a capacity greater than 0.
C9_CapacityPositive ==
  /\ \A v \in db.venues : v.capacity > 0
  /\ \A r \in SeqReqs :
       Finished(r, "CreateVenue") =>
         /\ (arg[r].capacity.t = "number" /\ arg[r].capacity.n <= 0) =>
              resp[r].code = 400 /\ db = pre[r]
         /\ (/\ arg[r].name # "" /\ arg[r].location # ""
             /\ arg[r].capacity = Num(1)) =>
              /\ resp[r].code = 201
              /\ \E v \in db.venues \ pre[r].venues :
                   /\ v.capacity = 1
                   /\ db = [pre[r] EXCEPT !.venues = @ \cup {v}]

\* a request with capacity 1 was answered 201 and its venue is in the table
C9_Witness ==
  \E r \in SeqReqs :
    /\ Finished(r, "CreateVenue")
    /\ arg[r].capacity = Num(1)
    /\ resp[r].code = 201
    /\ \E v \in db.venues \ pre[r].venues : v.capacity = 1

\* C10: POST feedback requests one after the other: rating 0 or 6 is answered
\* 400 and the tables are as they were; rating 1 or 5 for an existing concert
\* is answered 201; every feedback row has a rating from 1 to 5.
C10_RatingBoundary ==
  /\ \A f \in db.feedback : f.rating \in 1..5
  /\ \A r \in SeqReqs :
       Finished(r, "CreateFeedback") =>
         /\ arg[r].rating \in {Num(0), Num(6)} =>
              resp[r].code = 400 /\ db = pre[r]
         /\ (/\ arg[r].concertId # 0 /\ arg[r].attendeeId # 0
             /\ arg[r].rating \in {Num(1), Num(5)}
             /\ RowsOf(pre[r].concerts, arg[r].concertId) # {}) =>
              resp[r].code = 201

\* C11: in every 200 answer of GET /concerts/:id/summary, isSoldOut is true
\* exactly when the ticketsSold of the answer is at least its ticketLimit, and
\* ticketsSold is the number of the concert's ticket rows; in particular at
\* limit - 1, limit and limit + 1 tickets.
C11_IsSoldOutMatchesCounts ==
  \A r \in SeqReqs :
    (Finished(r, "Summary") /\ resp[r].code = 200) =>
      /\ loc[r].isSoldOut = (loc[r].ticketsSold >= loc[r].ticketLimit)
      /\ loc[r].ticketsSold = SoldTickets(db, arg[r].id)

\* a summary was answered for a concert with one ticket more than its limit,
\* and it says sold out
C11_Witness ==
  \E r \in SeqReqs :
    /\ Finished(r, "Summary") /\ resp[r].code = 200
    /\ loc[r].ticketsSold = loc[r].ticketLimit + 1
    /\ loc[r].isSoldOut

\* C12: a POST /concerts whose required fields are all present and whose
\* venueId, artistId or managerId is the id of no row is answered 404 and the
\* tables are as they were.
C12_MissingReferenceIs404 ==
  \A r \in SeqReqs :
    (/\ Finished(r, "CreateConcert")
     /\ ~ConcertFieldMissing(arg[r])
     /\ \/ RowsOf(pre[r].venues, arg[r].venueId) = {}
        \/ RowsOf(pre[r].artists, arg[r].artistId) = {}
        \/ RowsOf(pre[r].staff, arg[r].managerId) = {}) =>
      resp[r].code = 404 /\ db = pre[r]

\* C13: every concert has a price greater than 0 (0 stands for NULL), and a
\* POST /concerts or PUT /concerts/:id whose price is 0 or negative is
\* answered 400 and the tables are as they were.
C13_PricePositive ==
  /\ \A c \in db.concerts : c.price > 0
  /\ \A r \in SeqReqs :
       (/\ pc[r] = "done" /\ op[r] \in {"CreateConcert", "UpdateConcert"}
        /\ arg[r].price.t = "number" /\ arg[r].price.n <= 0
        /\ (op[r] = "UpdateConcert" => RowsOf(pre[r].concerts, arg[r].id) # {})) =>
         resp[r].code = 400 /\ db = pre[r]

\* C14: DELETE /:id requests one after the other: a delete of an id a row
\* has is answered 200 and the tables differ by exactly that one row; a delete
\* of an id no row has (never created, or deleted by an earlier request) is
\* answered 404 and the tables are as they were.
C14_DeleteThenNotFound ==
  \A r \in SeqReqs :
    Finished(r, "DeleteRow") =>
      LET rows == RowsOf(pre[r][arg[r].table], arg[r].id) IN
      /\ rows # {} =>
           /\ resp[r].code = 200
           /\ Cardinality(rows) = 1
           /\ db = [pre[r] EXCEPT ![arg[r].table] = @ \ rows]
      /\ rows = {} => resp[r].code = 404 /\ db = pre[r]

\* DELETE /venues/1 was answered 404: venue 1 is seeded, so an earlier delete
\* removed it
C14_Witness ==
  \E r \in SeqReqs :
    /\ Finished(r, "DeleteRow")
    /\ arg[r] = [table |-> "venues", id |-> 1]
    /\ resp[r].code = 404
    /\ db.venues = {}

\* C15: POST /artists with name, genre and contactInfo: a managerId that is
\* the id of no staff row is answered 404 and the tables are as they were; no
\* managerId, or the id of a staff row, is answered 201 and the tables differ
\* by exactly one artist, with that manager.
C15_ManagerChecked ==
  \A r \in SeqReqs :
    (/\ Finished(r, "CreateArtist")
     /\ arg[r].name # "" /\ arg[r].genre # "" /\ arg[r].contactInfo # "") =>
      IF arg[r].managerId # 0 /\ RowsOf(pre[r].staff, arg[r].managerId) = {}
      THEN resp[r].code = 404 /\ db = pre[r]
      ELSE /\ resp[r].code = 201
           /\ \E a \in db.artists \ pre[r].artists :
                /\ a.manager = arg[r].managerId
                /\ db = [pre[r] EXCEPT !.artists = @ \cup {a}]

\* an artist of the seeded manager was created, and a later request naming a
\* manager that does not exist got 404
C15_Witness ==
  \E r \in SeqReqs :
    /\ Finished(r, "CreateArtist")
    /\ arg[r].name # "" /\ arg[r].managerId = 2
    /\ resp[r].code = 404
    /\ \E a \in db.artists : a.id > 1 /\ a.manager = 1

\* C16: POST /sponsorships, later revision, required fields given: a
\* concertId that is the id of no concert is answered 404 and the tables are
\* as they were; a request that has passed the check inserts a sponsorship
\* whose concert existed when the check ran.
C16_SponsorConcertChecked ==
  \A r \in SeqReqs :
    /\ (/\ Finished(r, "CreateSponsorship")
        /\ arg[r].name # "" /\ arg[r].contactInfo # ""
        /\ arg[r].contributionAmt # 0 /\ arg[r].concertId # 0
        /\ RowsOf(pre[r].concerts, arg[r].concertId) = {}) =>
         resp[r].code = 404 /\ db = pre[r]
    /\ (op[r] = "CreateSponsorship" /\ resp[r].code = 201) =>
         /\ arg[r].concertId \in loc[r].seen
         /\ \E x \in db.sponsorships :
              x.id = loc[r].id /\ x.concert \in loc[r].seen

\* a sponsorship of the seeded concert was created, and a later request for
\* concert 2, which does not exist, got 404
C16_Witness ==
  \E r \in SeqReqs :
    /\ Finished(r, "CreateSponsorship")
    /\ arg[r].concertId = 2 /\ arg[r].name # ""
    /\ resp[r].code = 404
    /\ \E x \in db.sponsorships : x.concert = 1

\* C17: a finished POST /admin/login has changed nothing but ADMIN_USERS;
\* missing fields are answered 400, credentials that match no active admin
\* 401, both with every admin row as it was; credentials of an active admin
\* are answered 200 and the admin rows differ in the last login of that admin
\* only.
C17_LoginFrame ==
  \A r \in SeqReqs :
    Finished(r, "AdminLogin") =>
      LET u == arg[r].username
          p == arg[r].password
          known == {a \in pre[r].admins :
                      a.username = u /\ a.password = p /\ a.active = 1}
      IN
      /\ db = [pre[r] EXCEPT !.admins = db.admins]
      /\ (u = "" \/ p = "") => resp[r].code = 400 /\ db = pre[r]
      /\ (u # "" /\ p # "" /\ known = {}) =>
           resp[r].code = 401 /\ db = pre[r]
      /\ (u # "" /\ p # "" /\ known # {}) =>
           /\ resp[r].code = 200
           /\ \E a \in known :
                \E b \in db.admins :
                  /\ b = [a EXCEPT !.lastLogin = b.lastLogin]
                  /\ b.lastLogin > a.lastLogin
                  /\ db.admins = (pre[r].admins \ {a}) \cup {b}

\* the inactive admin gave its right credentials and got 401, after the
\* active admin had logged in
C17_Witness ==
  \E r \in SeqReqs :
    /\ Finished(r, "AdminLogin")
    /\ arg[r] = [username |-> "v", password |-> "p"]
    /\ resp[r].code = 401
    /\ \E a \in db.admins : a.id = 1 /\ a.lastLogin > 0
    /\ \E a \in db.admins : a.id = 2 /\ a.lastLogin = 0

\* C18: a POST /tickets request (sold-out-checking revision) that stands at
\* its INSERT is about to write the price its concert has at that moment, so
\* every ticket is inserted with the price of its concert at the insert,
\* whatever PUT /concerts/:id and PUT /concerts/:id/price requests are in
\* flight.
C18_TicketPriceIsCurrent ==
  \A r \in Reqs :
    (op[r] = "CreateTicket" /\ pc[r] = "insert") =>
      \A c \in RowsOf(db.concerts, arg[r].concertId) : loc[r].price = c.price

\* C19: the body of a 500 answer of a handler other than DELETE
\* /concerts/:id and the package-backed DELETE /streaming/:id carries no fault
\* text: it is the handler's fixed message, whatever was thrown.
C19_NoFaultTextOutsideDeletes ==
  \A r \in SeqReqs :
    (resp[r].code = 500 /\ op[r] \notin {"DeleteConcert", "DeletePlatform"}) =>
      /\ resp[r].error = ""
      /\ resp[r].msg \notin FaultTexts
      /\ resp[r].msg = FailMessage(op[r], arg[r])

\* a call of GET /concerts/:id/summary threw and the request was answered
\* 500 with nothing of the fault in the body
C19_Witness ==
  \E r \in SeqReqs :
    /\ Finished(r, "Summary")
    /\ resp[r] = [code |-> 500, msg |-> "Failed to generate summary",
                  error |-> ""]

C21_ChecksBeforeWrites ==
  \A r \in SeqReqs :
    /\ pc[r] \in {"insert", "update", "delete"} =>
         /\ resp[r] = NoResp
         /\ db = pre[r]
         /\ op[r] = "CreateTicket" =>
              /\ arg[r].concertId # 0 /\ arg[r].attendeeId # 0
              /\ \E c \in RowsOf(pre[r].concerts, arg[r].concertId) :
                   SoldTickets(pre[r], c.id) < c.limit
         /\ op[r] = "Register" =>
              /\ arg[r].name # "" /\ arg[r].contactInfo # ""
              /\ arg[r].password # ""
              /\ \A x \in pre[r].attendees : x.contact # arg[r].contactInfo
         /\ op[r] = "CreateArtist" =>
              /\ arg[r].name # "" /\ arg[r].genre # ""
              /\ arg[r].contactInfo # ""
              /\ \/ arg[r].managerId = 0
                 \/ RowsOf(pre[r].staff, arg[r].managerId) # {}
         /\ op[r] = "UpdateConcert" =>
              /\ RowsOf(pre[r].concerts, arg[r].id) # {}
              /\ ~(arg[r].price.t = "number" /\ arg[r].price.n <= 0)
    /\ resp[r].code \in {400, 404, 409} => db = pre[r]

\* a PUT /concerts/:id for an existing concert was refused for its price after
\* the existence check had passed, and nothing was written
C21_Witness ==
  \E r \in SeqReqs :
    /\ Finished(r, "UpdateConcert")
    /\ resp[r] = [code |-> 400, msg |-> "Price must be greater than 0",
                  error |-> ""]
    /\ RowsOf(db.concerts, arg[r].id) # {}
    /\ conn[r] = "closed"
    /\ db = pre[r]


\* C22: a POST /sponsorships request that stands at its INSERT has passed
\* the concert check (its concert was there when the check ran) and has sent
\* no answer, and that is all that holds of it: nothing keeps the concert in
\* place between the check and the insert (C22_Witness: a DELETE
\* /concerts/:id of the concert was answered 200 while the request stood
\* between its check and its insert).
C22_CheckedOnce ==
  \A r \in Reqs :
    (op[r] = "CreateSponsorship" /\ pc[r] \in {"seq", "insert"}) =>
      /\ arg[r].concertId \in loc[r].seen
      /\ resp[r] = NoResp

C22_Witness ==
  \E r, q \in Reqs :
    /\ op[r] = "CreateSponsorship" /\ pc[r] = "insert"
    /\ arg[r].concertId \in loc[r].seen
    /\ RowsOf(db.concerts, arg[r].concertId) = {}
    /\ Finished(q, "DeleteConcert")
    /\ arg[q].id = arg[r].concertId
    /\ resp[q].code = 200


\* C23: the server listens, and has routers mounted, only when the test
\* connection was opened and closed; when the test connection has failed the
\* process has exited with code 1, listens on nothing and has mounted
\* nothing; a handler runs only under a listening server.
C23_ListenAfterTest ==
  LET s == loc[Boot] IN
  /\ (s.listening \/ s.mounted # {}) =>
       s.tested = "ok" /\ conn[Boot] = "closed" /\ s.exit = 0
  /\ s.tested = "failed" =>
       /\ pc[Boot] = "exited" /\ s.exit = 1
       /\ ~s.listening /\ s.mounted = {}
  /\ s.exit # 0 => s.exit = 1 /\ s.tested = "failed"
  /\ \A r \in Reqs \ {Boot} : pc[r] # "idle" => s.listening /\ s.tested = "ok"

\* the server listens after its test connection was closed, and has answered
\* a request
C23_Witness ==
  /\ loc[Boot].listening
  /\ conn[Boot] = "closed"
  /\ \E r \in Reqs \ {Boot} : Finished(r, "GetConcert") /\ resp[r].code = 200


\* C24: a handler writes a response only when it has written none for its
\* request; a handler that has reached its finally block or has returned has
\* written one; and, every awaited call returning or throwing, a request that
\* has arrived is answered.
C24_ExactlyOneAnswer ==
  /\ [][\A r \in SeqReqs :
          resp'[r] # resp[r] => (Quiet(r) \/ resp[r] = NoResp)]_vars
  /\ [](\A r \in SeqReqs :
          (pc[r] \in {"finally", "done"} /\ op[r] # "none") =>
            resp[r].code # 0)
  /\ \A r \in SeqReqs :
       (pc[r] = "connect") ~> (pc[r] = "done" /\ resp[r].code # 0)

\* the procedure of DELETE /concerts/:id refused a Completed concert: the
\* handler answered 400 by an early return, its finally block has run, and
\* the answer is still the 400
C24_Witness ==
  \E r \in SeqReqs :
    /\ Finished(r, "DeleteConcert")
    /\ resp[r].code = 400
    /\ conn[r] = "closed"


\* C25: under any interleaving of creates that draw their id from a
\* sequence, two requests of the same handler that hold an id hold different
\* ids, so two 201 answers carry different ids, and no two rows of staff, of
\* the attendees or of the tickets have the same id.
C25_SequenceIdsDiffer ==
  /\ \A r1, r2 \in Reqs :
       (/\ r1 # r2
        /\ op[r1] \in {"CreateStaff", "Register", "CreateTicket",
                       "CreateTicketOld"}
        /\ op[r2] = op[r1] \/ {op[r1], op[r2]} = {"CreateTicket", "CreateTicketOld"}
        /\ pc[r1] \in {"insert", "refetch", "finally", "done"}
        /\ pc[r2] \in {"insert", "refetch", "finally", "done"}
        /\ resp[r1].code \in {0, 201} /\ resp[r2].code \in {0, 201}) =>
         loc[r1].id # loc[r2].id
  /\ \A r \in Reqs :
       (op[r] \in {"CreateStaff", "Register", "CreateTicket", "CreateTicketOld"}
        /\ resp[r].code = 201) =>
         LET rows == CASE op[r] = "CreateStaff" -> db.staff
                       [] op[r] = "Register" -> db.attendees
                       [] OTHER -> db.tickets IN
         Cardinality({x \in rows : x.id = loc[r].id}) = 1
  /\ \A x, y \in db.staff : x.id = y.id => x = y
  /\ \A x, y \in db.attendees : x.id = y.id => x = y
  /\ \A x, y \in db.tickets : x.id = y.id => x = y

\* two POST /staff requests that read the sequence one right after the other
\* were both answered 201
C25_Witness ==
  \E r1, r2 \in Reqs :
    /\ r1 # r2
    /\ Finished(r1, "CreateStaff") /\ Finished(r2, "CreateStaff")
    /\ resp[r1].code = 201 /\ resp[r2].code = 201
    /\ loc[r2].id = loc[r1].id + 1
    /\ {x.id : x \in db.staff} = {1, loc[r1].id, loc[r2].id}


\* C26: a step that inserts a concert (a row with an id no concert had)
\* inserts it with status Scheduled, whatever the body of the request holds;
\* and a POST /concerts that has run its INSERT has a concert of its id, which
\* is Scheduled.
C26_InsertedScheduled ==
  /\ [][\A c \in db'.concerts :
          c.id \notin Ids(db.concerts) => c.status = "Scheduled"]_vars
  /\ [](\A r \in SeqReqs :
          (op[r] = "CreateConcert" /\ pc[r] = "refetch") =>
            /\ RowsOf(db.concerts, loc[r].id) # {}
            /\ \A c \in RowsOf(db.concerts, loc[r].id) :
                 c.status = "Scheduled")

\* a POST /concerts whose body has status Completed has run its INSERT, and
\* its concert is Scheduled
C26_Witness ==
  \E r \in SeqReqs :
    /\ op[r] = "CreateConcert" /\ pc[r] = "refetch"
    /\ arg[r].status = "Completed"
    /\ \E c \in db.concerts : c.id = loc[r].id /\ c.status = "Scheduled"

\* C27: PUT /concerts/:id requests one after the other: a request that has
\* run its UPDATE has left the tables as they were but for the concert of its
\* id, and that concert has, in each of its ten columns, what the body gives
\* for the column, NULL (0 or "") for a field the body lacks, whatever the
\* column held.
C27_UpdateWritesEveryColumn ==
  \A r \in SeqReqs :
    (op[r] = "UpdateConcert" /\ pc[r] = "refetch") =>
      \A c \in RowsOf(pre[r].concerts, arg[r].id) :
        LET b == arg[r]
            written ==
              [id |-> c.id, name |-> b.name, date |-> b.date,
               time |-> b.time, venue |-> b.venueId, artist |-> b.artistId,
               manager |-> b.managerId, limit |-> b.ticketSalesLimit,
               price |-> IF b.price.t = "number" THEN b.price.n ELSE 0,
               status |-> b.status, description |-> b.description]
        IN db = [pre[r] EXCEPT !.concerts = (@ \ {c}) \cup {written}]

\* a PUT with an empty body on the seeded concert has run its UPDATE: every
\* column of the concert is NULL, and the concert a POST created is as it was
C27_Witness ==
  \E r \in SeqReqs :
    /\ op[r] = "UpdateConcert" /\ pc[r] = "refetch"
    /\ arg[r].name = "" /\ arg[r].status = "" /\ arg[r].price = Undef
    /\ \E c \in pre[r].concerts : c.id = arg[r].id /\ c.name = "n"
    /\ \E c \in db.concerts :
         /\ c.id = arg[r].id
         /\ c.name = "" /\ c.description = "" /\ c.price = 0 /\ c.venue = 0
    /\ \E c \in db.concerts : c.id # arg[r].id /\ c \in pre[r].concerts


\* C28: when PUT /concerts/:id was answered 200 and a GET /concerts/:id for
\* the same id, arrived with the tables as the PUT left them, was answered
\* 200, the two concerts sent are equal in id, name, date, time, status,
\* price, venue, ticketSalesLimit, remainingCapacity, artist, manager and
\* ratings.
C28_PutEqualsGet ==
  \A p, g \in Reqs :
    (/\ Finished(p, "UpdateConcert") /\ resp[p].code = 200
     /\ Finished(g, "GetConcert") /\ resp[g].code = 200
     /\ arg[g].id = arg[p].id
     /\ pre[g] = db) =>
      \A f \in {"id", "name", "date", "time", "status", "price", "venue",
                "ticketSalesLimit", "remainingCapacity", "artist", "manager",
                "ratings"} :
        loc[p].body[f] = loc[g].body[f]


\* C29: POST /tickets and DELETE /tickets/:id requests one after the other: a
\* DELETE answered 200 has removed exactly the ticket of its id, so its
\* concert has one ticket less; a POST that arrives when its concert has fewer
\* tickets than its limit (as after such a delete at the limit) is answered
\* 201 and adds one ticket; a POST that arrives at the limit is answered 400
\* sold out and adds none.
C29_DeleteFreesCapacity ==
  \A r \in SeqReqs :
    /\ (Finished(r, "DeleteRow") /\ arg[r].table = "tickets"
        /\ resp[r].code = 200) =>
         \E t \in pre[r].tickets :
           /\ t.id = arg[r].id
           /\ db = [pre[r] EXCEPT !.tickets = @ \ {t}]
           /\ Cardinality({x \in db.tickets : x.concert = t.concert})
                = Cardinality({x \in pre[r].tickets : x.concert = t.concert}) - 1
    /\ (Finished(r, "CreateTicket")
        /\ arg[r].concertId # 0 /\ arg[r].attendeeId # 0) =>
         \A c \in RowsOf(pre[r].concerts, arg[r].concertId) :
           LET before == Cardinality({x \in pre[r].tickets : x.concert = c.id})
               after == Cardinality({x \in db.tickets : x.concert = c.id})
           IN /\ before < c.limit => resp[r].code = 201 /\ after = before + 1
              /\ before = c.limit =>
                   /\ resp[r].code = 400 /\ resp[r].msg = "sold out"
                   /\ after = before

\* the concert of limit 1 has ticket 2 and not ticket 1, and a POST was
\* turned away as sold out: ticket 1 was sold, its delete made room for ticket
\* 2, and the POST after that found the concert full again
C29_Witness ==
  \E r \in SeqReqs :
    /\ Finished(r, "CreateTicket")
    /\ resp[r].msg = "sold out"
    /\ \E c \in db.concerts : c.id = arg[r].concertId /\ c.limit = 1
    /\ {t.id : t \in db.tickets} = {2}


\* C30: under any interleaving of DELETE /:id requests, a row is deleted for
\* one request only: of two requests for the same table and id, at most one is
\* answered 200 (no row gets the id of a deleted row here, so a second 200
\* for the id is a second answer for the same row).
C30_OneDeleteWins ==
  \A r1, r2 \in Reqs :
    (/\ r1 # r2
     /\ op[r1] = "DeleteRow" /\ op[r2] = "DeleteRow"
     /\ arg[r1] = arg[r2]
     /\ resp[r1].code = 200) =>
      resp[r2].code # 200

====
